---------------------------- MODULE Spec2Model ----------------------------
(***************************************************************************)
(* A model of the video-semantic-search backend: the ingestion pipeline    *)
(* (worker/ingest_video.py, worker/utils/supabase_io.py), the catalog      *)
(* handlers (app/routers/videos.py) and the retrieval pipeline             *)
(* (app/routers/search.py).                                                *)
(*                                                                         *)
(* Conventions.  Python None is the empty sequence, a present value x is   *)
(* <<x>>.  Scores are integers in units of 0.00001, so 0.9 is 90000.       *)
(***************************************************************************)
EXTENDS Integers, Sequences, FiniteSets, TLC

None == <<>>
Some(x) == <<x>>

Abs(x) == IF x < 0 THEN -x ELSE x

SeqRange(s) == {s[i] : i \in DOMAIN s}

-----------------------------------------------------------------------------
(* Bounds of the model and constants of the program.                       *)

\* Longest row list handed to group_into_moments in SpecMoments.
MaxLen == 3

\* search.py:146 calls group_into_moments(filtered_rows, time_threshold_ms=2000).
TimeThresholdMs == 2000

\* Frames the longest video file yields; the ingest batch size (batch_size,
\* 10 by default, 3 in test_ingestion.py).
MaxFrames == 3
BatchSize == 2

\* Longest result list handed to filter_results_by_semantic_similarity.
MaxResults == 3

\* max_workers of filter_results_by_semantic_similarity in the model.
MaxWorkers == 2

\* Most rows the query of list_videos fetches.
MaxVideos == 3

\* Largest pool size and largest number of waiting requests get_pool_stats
\* is applied to.
MaxPoolSize == 10
MaxWaiting == 2

VARIABLES
    videos,         \* the rows of public.videos
    segments,       \* the rows of public.segments
    blobs,          \* the objects of the blob store, each <<bucket, path>>
    run,            \* run[r]: the activation of ingest_video in thread r
    http,           \* the request handled in the last step and its outcome, or None
    gm_pc,          \* position in group_into_moments: "call", "loop", "returned"
    gm_segments,    \* its argument `segments`
    gm_i,           \* index of the row the for loop reads next
    gm_current,     \* its local `current_moment` (None or a dict)
    gm_moments,     \* its local `moments`
    gm_result,      \* the list it returned
    rf_pc,          \* position in filter_results_by_semantic_similarity
    rf_results,     \* its argument `results`
    rf_threshold,   \* its argument `threshold`
    rf_tasks,       \* rf_tasks[i]: the future of the task submitted for results[i]
    rf_processed,   \* its local `processed_results`
    rf_filtered,    \* the list it returned
    si_global,      \* the module global of a lazy singleton (`_model`)
    si_built,       \* the instances constructed so far
    si_thread,      \* si_thread[t]: the activation of the getter in thread t
    ps_pc,          \* position in get_pool_stats: "call", "returned", "raised"
    ps_size,        \* pool.size when get_pool_stats reads it
    ps_available,   \* pool.available
    ps_waiting,     \* pool.waiting
    ps_response,    \* the response of get_pool_stats, or None
    cp_leased,      \* the handler threads that hold a connection of the pool
    cp_thread,      \* cp_thread[h]: the handler running in thread h
    cp_released,    \* how the block that returned a connection last was left
    ef_pc,          \* position in extract_frames: "call", "read", "ended", "raised"
    ef_fps,         \* its argument `fps`, a fraction <<numerator, denominator>>
    ef_start_time,  \* its argument `start_time`, None or milliseconds
    ef_stdout,      \* the bytes the decoder writes to its pipe in all
    ef_pos,         \* the bytes read from the pipe so far
    ef_frame_idx,   \* its local `frame_idx`
    ef_yielded,     \* the timestamps yielded so far
    bg_thread,      \* bg_thread[r]: run_ingestion in the background thread r
    lv_pc,          \* position in list_videos: "call", "collect", "returned"
    lv_rows,        \* the rows its query fetched
    lv_tasks,       \* lv_tasks[i]: the future of the task submitted for rows[i-1]
    lv_results,     \* its local `results`, the pairs (idx, result) collected
    lv_response,    \* the list it returned
    dc_open         \* the threads that hold a connection psycopg.connect opened

gmVars == <<gm_pc, gm_segments, gm_i, gm_current, gm_moments, gm_result>>

catalogVars == <<videos, segments, blobs>>

appVars == <<videos, segments, blobs, run, http>>

rfVars == <<rf_pc, rf_results, rf_threshold, rf_tasks, rf_processed, rf_filtered>>

siVars == <<si_global, si_built, si_thread>>

psVars == <<ps_pc, ps_size, ps_available, ps_waiting, ps_response>>

cpVars == <<cp_leased, cp_thread, cp_released>>

efVars == <<ef_pc, ef_fps, ef_start_time, ef_stdout, ef_pos, ef_frame_idx, ef_yielded>>

bgVars == <<bg_thread>>

lvVars == <<lv_pc, lv_rows, lv_tasks, lv_results, lv_response>>

dcVars == <<dc_open>>

libVars == <<rfVars, siVars, psVars, cpVars, efVars, bgVars, lvVars, dcVars>>

vars == <<appVars, gmVars, libVars>>

-----------------------------------------------------------------------------
(* group_into_moments (app/routers/search.py)                              *)

\* The dict built at lines 210-216 and again at 233-239.
NewMoment(seg) ==
    [video_id     |-> seg.video_id,
     start_ms     |-> seg.timestamp_ms,
     end_ms       |-> seg.timestamp_ms,
     best_segment |-> seg,
     best_score   |-> seg.score]

CloseInTimeStrict(time_gap, time_threshold_ms) == time_gap < time_threshold_ms

\* Line 221: close_in_time = time_gap <= time_threshold_ms.
CloseInTime(time_gap, time_threshold_ms) == time_gap <= time_threshold_ms

IsBetterOrEqual(score, best_score) == score >= best_score

IsLower(score, best_score) == score < best_score

\* Line 227: if score > current_moment['best_score'].
IsBetter(score, best_score) == score > best_score

\* Lines 224-229: extend the current moment with seg.
ExtendMoment(cm, seg) ==
    [cm EXCEPT !.end_ms = seg.timestamp_ms,
               !.best_segment = IF IsBetter(seg.score, cm.best_score) THEN seg ELSE @,
               !.best_score = IF IsBetter(seg.score, cm.best_score) THEN seg.score ELSE @]

\* One iteration of the for loop, lines 205-239, on the locals
\* st = [current_moment, moments].
MomentStep(st, seg, time_threshold_ms) ==
    IF st.current_moment = None
    THEN [st EXCEPT !.current_moment = Some(NewMoment(seg))]
    ELSE LET cm == st.current_moment[1]
             same_video == seg.video_id = cm.video_id
             time_gap == seg.timestamp_ms - cm.end_ms
             close_in_time == CloseInTime(time_gap, time_threshold_ms)
         IN  IF same_video /\ close_in_time
             THEN [st EXCEPT !.current_moment = Some(ExtendMoment(cm, seg))]
             ELSE [current_moment |-> Some(NewMoment(seg)),
                   moments |-> Append(st.moments, cm.best_segment)]

MomentsWithoutLast(st) == st.moments

\* Lines 241-245: add the last moment and return.
MomentsAtExit(st) ==
    IF st.current_moment # None
    THEN Append(st.moments, st.current_moment[1].best_segment)
    ELSE st.moments

RECURSIVE MomentFold(_, _, _, _)
MomentFold(st, segs, i, time_threshold_ms) ==
    IF i > Len(segs) THEN st
    ELSE MomentFold(MomentStep(st, segs[i], time_threshold_ms), segs, i + 1,
                    time_threshold_ms)

\* The whole function, as search_videos calls it.
group_into_moments(segs, time_threshold_ms) ==
    IF segs = <<>> THEN <<>>
    ELSE MomentsAtExit(MomentFold([current_moment |-> None, moments |-> <<>>],
                                  segs, 1, time_threshold_ms))

\* The function stepped one loop iteration at a time.
GmIdle ==
    /\ gm_pc = "idle"
    /\ gm_segments = <<>>
    /\ gm_i = 0
    /\ gm_current = None
    /\ gm_moments = <<>>
    /\ gm_result = <<>>

\* Lines 199-203.
GmEntry ==
    /\ gm_pc = "call"
    /\ IF gm_segments = <<>>
       THEN /\ gm_pc' = "returned"
            /\ gm_result' = <<>>
            /\ UNCHANGED <<gm_i, gm_current, gm_moments>>
       ELSE /\ gm_pc' = "loop"
            /\ gm_moments' = <<>>
            /\ gm_current' = None
            /\ gm_i' = 1
            /\ UNCHANGED gm_result
    /\ UNCHANGED <<gm_segments, appVars, libVars>>

\* Lines 205-239, one row.
GmIterate ==
    /\ gm_pc = "loop"
    /\ gm_i <= Len(gm_segments)
    /\ LET st == MomentStep([current_moment |-> gm_current, moments |-> gm_moments],
                            gm_segments[gm_i], TimeThresholdMs)
       IN  /\ gm_current' = st.current_moment
           /\ gm_moments' = st.moments
    /\ gm_i' = gm_i + 1
    /\ UNCHANGED <<gm_pc, gm_segments, gm_result, appVars, libVars>>

\* Lines 241-245.
GmExit ==
    /\ gm_pc = "loop"
    /\ gm_i > Len(gm_segments)
    /\ gm_result' = MomentsAtExit([current_moment |-> gm_current, moments |-> gm_moments])
    /\ gm_pc' = "returned"
    /\ UNCHANGED <<gm_segments, gm_i, gm_current, gm_moments, appVars, libVars>>


-----------------------------------------------------------------------------
(* filter_results_by_semantic_similarity (app/utils/openai_filter.py)      *)

\* What one call of the oracle (client.chat.completions.create, lines 86-94)
\* does: it raises, or it replies with a text that is a number (float() parses
\* it, once '%' is removed) or is not.
OracleRaised == [kind |-> "raised", n |-> 0]
OracleUnparsable == [kind |-> "unparsable", n |-> 0]
OracleNumber(n) == [kind |-> "number", n |-> n]

OracleOutcomes == {OracleRaised, OracleUnparsable, OracleNumber(50), OracleNumber(150)}

\* Lines 101-104: score = float(score_text) / 100.0, clamped to [0.0, 1.0].
ClampedScore(n) == IF n * 1000 > 100000 THEN 100000 ELSE IF n < 0 THEN 0 ELSE n * 1000

\* calculate_text_similarity, lines 45-111: any exception gives 0.0.
calculate_text_similarity(outcome) ==
    IF outcome.kind = "number" THEN ClampedScore(outcome.n) ELSE 0

\* Line 131: caption_json.get('text', '') if caption_json else ''.
CaptionText(caption_json) ==
    IF caption_json = None THEN ""
    ELSE IF "text" \in DOMAIN caption_json[1] THEN caption_json[1].text
    ELSE ""

HasCaptionObject(caption_json) == caption_json # None

\* Line 133: if not caption_text.
HasCaptionText(caption_json) == CaptionText(caption_json) # ""

\* Line 147: passed = semantic_score >= threshold.
Passed(semantic_score, threshold) == semantic_score >= threshold

\* _process_single_result, lines 128-156; outcome is what the oracle does if
\* it is called.
ProcessSingleResult(result, index, threshold, outcome) ==
    IF ~HasCaptionText(result.caption)
    THEN [result |-> result, index |-> index, semantic_score |-> 0,
          passed |-> FALSE, skipped |-> TRUE]
    ELSE [result |-> result, index |-> index,
          semantic_score |-> calculate_text_similarity(outcome),
          passed |-> Passed(calculate_text_similarity(outcome), threshold),
          skipped |-> FALSE]

CompletionOrder(processed) == processed

\* Line 209: processed_results.sort(key=lambda x: x['index']); the indexes
\* are distinct.
SortByIndex(processed) ==
    [k \in DOMAIN processed |->
        processed[CHOOSE j \in DOMAIN processed :
                     Cardinality({m \in DOMAIN processed :
                                     processed[m].index < processed[j].index}) = k - 1]]

\* Lines 212-232: the results of the processed items that were not skipped
\* and passed, in the order of the list.
RECURSIVE PassedResults(_)
PassedResults(processed) ==
    IF processed = <<>> THEN <<>>
    ELSE LET p == Head(processed)
         IN  IF ~p.skipped /\ p.passed
             THEN <<p.result>> \o PassedResults(Tail(processed))
             ELSE PassedResults(Tail(processed))

PendingTask == [state |-> "pending", oracle |-> None, processed |-> None]

RfIdle ==
    /\ rf_pc = "idle"
    /\ rf_results = <<>>
    /\ rf_threshold = 0
    /\ rf_tasks = <<>>
    /\ rf_processed = <<>>
    /\ rf_filtered = <<>>

\* Lines 179-195: an empty list is returned at once; otherwise one task per
\* result is submitted to the executor.
RfEntry ==
    /\ rf_pc = "call"
    /\ IF rf_results = <<>>
       THEN /\ rf_pc' = "returned"
            /\ rf_filtered' = rf_results
            /\ UNCHANGED rf_tasks
       ELSE /\ rf_pc' = "collect"
            /\ rf_tasks' = [i \in DOMAIN rf_results |-> PendingTask]
            /\ UNCHANGED rf_filtered
    /\ UNCHANGED <<rf_results, rf_threshold, rf_processed, appVars, gmVars, siVars, psVars, cpVars, efVars,
                   bgVars, lvVars,
                   dcVars>>

StartsAtOnce(tasks, max_workers) == TRUE

\* Line 190: ThreadPoolExecutor(max_workers=max_workers) runs a task only on
\* one of its max_workers threads.
WorkerFree(tasks, max_workers) ==
    Cardinality({j \in DOMAIN tasks : tasks[j].state = "running"}) < max_workers

\* A worker thread takes the task of results[i] from the executor's queue,
\* which hands the tasks out in the order they were submitted, and enters
\* _process_single_result.
RfStart(i) ==
    /\ rf_pc = "collect"
    /\ rf_tasks[i].state = "pending"
    /\ \A j \in 1..(i - 1) : rf_tasks[j].state # "pending"
    /\ WorkerFree(rf_tasks, MaxWorkers)
    /\ rf_tasks' = [rf_tasks EXCEPT ![i].state = "running"]
    /\ UNCHANGED <<rf_pc, rf_results, rf_threshold, rf_processed, rf_filtered,
                   appVars, gmVars, siVars, psVars, cpVars, efVars,
                   bgVars, lvVars,
                   dcVars>>

\* The worker thread finishes _process_single_result for results[i]; the
\* oracle is called only when the result has a caption.
RfTask(i) ==
    /\ rf_pc = "collect"
    /\ rf_tasks[i].state = "running"
    /\ \E outcome \in OracleOutcomes :
         LET called == HasCaptionText(rf_results[i].caption)
         IN  /\ ~called => outcome = OracleRaised
             /\ rf_tasks' = [rf_tasks EXCEPT ![i] =
                   [state |-> "done",
                    oracle |-> IF called THEN Some(outcome) ELSE None,
                    processed |-> Some(ProcessSingleResult(rf_results[i], i,
                                                           rf_threshold, outcome))]]
    /\ UNCHANGED <<rf_pc, rf_results, rf_threshold, rf_processed, rf_filtered,
                   appVars, gmVars, siVars, psVars, cpVars, efVars,
                   bgVars, lvVars,
                   dcVars>>

\* Lines 198-201: as_completed yields a finished future; its result joins
\* processed_results.
RfCollect(i) ==
    /\ rf_pc = "collect"
    /\ rf_tasks[i].state = "done"
    /\ rf_processed' = Append(rf_processed, rf_tasks[i].processed[1])
    /\ rf_tasks' = [rf_tasks EXCEPT ![i].state = "collected"]
    /\ UNCHANGED <<rf_pc, rf_results, rf_threshold, rf_filtered, appVars, gmVars, siVars, psVars, cpVars, efVars,
                   bgVars, lvVars,
                   dcVars>>

\* Lines 206-238: every future has been collected; sort, filter, return.
RfExit ==
    /\ rf_pc = "collect"
    /\ \A i \in DOMAIN rf_tasks : rf_tasks[i].state = "collected"
    /\ rf_filtered' = PassedResults(SortByIndex(rf_processed))
    /\ rf_pc' = "returned"
    /\ UNCHANGED <<rf_results, rf_threshold, rf_tasks, rf_processed, appVars, gmVars, siVars, psVars, cpVars, efVars,
                   bgVars, lvVars,
                   dcVars>>

-----------------------------------------------------------------------------
(* The lazily initialized singletons: get_model (worker/utils/embeddings.py), *)
(* and in the same shape get_caption_model, get_pool and get_openai_client.  *)

\* The threads that may make the first call: the pool threads that run the
\* request handlers and the ingestion threads (videos.py:99).
SiThreads == {"t1", "t2", "t3"}

IdleGetter == [pc |-> "idle", instance |-> None, got |-> None]

SiIdle ==
    /\ si_global = None
    /\ si_built = {}
    /\ si_thread = [t \in SiThreads |-> IdleGetter]

SetGetter(t, rec) ==
    /\ si_thread' = [si_thread EXCEPT ![t] = rec]
    /\ UNCHANGED <<appVars, gmVars, rfVars, psVars, cpVars, efVars, bgVars, lvVars,
                   dcVars>>

\* get_model is called (embeddings.py:153, 159, 165; ingest_video.py:117).
SiCall(t) ==
    /\ si_thread[t].pc \in {"idle", "returned"}
    /\ SetGetter(t, [IdleGetter EXCEPT !.pc = "check"])
    /\ UNCHANGED <<si_global, si_built>>

\* Line 141: if _model is None.
SiCheck(t) ==
    /\ si_thread[t].pc = "check"
    /\ SetGetter(t, [si_thread[t] EXCEPT !.pc = IF si_global = None THEN "construct"
                                                 ELSE "return"])
    /\ UNCHANGED <<si_global, si_built>>

\* Lines 142-146: EmbeddingModel(...) is constructed; the instance built by
\* the n-th call of thread t is <<t, n>>.
SiConstruct(t) ==
    /\ si_thread[t].pc = "construct"
    /\ LET instance == <<t, Cardinality({b \in si_built : b[1] = t}) + 1>>
       IN  /\ si_built' = si_built \cup {instance}
           /\ SetGetter(t, [si_thread[t] EXCEPT !.pc = "assign",
                                                !.instance = Some(instance)])
    /\ UNCHANGED si_global

\* Line 142: the instance is stored in the global.
SiAssign(t) ==
    /\ si_thread[t].pc = "assign"
    /\ si_global' = si_thread[t].instance
    /\ SetGetter(t, [si_thread[t] EXCEPT !.pc = "return"])
    /\ UNCHANGED si_built

\* Line 148: return _model.
SiReturn(t) ==
    /\ si_thread[t].pc = "return"
    /\ SetGetter(t, [si_thread[t] EXCEPT !.pc = "returned", !.got = si_global])
    /\ UNCHANGED <<si_global, si_built>>

-----------------------------------------------------------------------------
(* get_pool_stats (app/routers/debug.py)                                    *)

\* get_pool, app/db/__init__.py:21-29: min_size=1, max_size=3.
PoolMinSize == 1
PoolMaxSize == 3

IsAtMost30Percent(available, size) == available * 10 <= size * 3

\* debug.py:51: pool.available < pool.size * 0.3.  For the integers of the
\* model the float product compares as the exact one does.
IsBelow30Percent(available, size) == available * 10 < size * 3

\* debug.py:49-54.
PoolStatus(size, available, waiting) ==
    IF available = 0
    THEN IF waiting > 0 THEN "warning" ELSE "critical"
    ELSE IF IsBelow30Percent(available, size)
    THEN "degraded"
    ELSE "healthy"

PsIdle ==
    /\ ps_pc = "idle"
    /\ ps_size = 0
    /\ ps_available = 0
    /\ ps_waiting = 0
    /\ ps_response = None

\* get_pool_stats, debug.py:45-67: the PoolStats response, or a 500 when
\* reading the pool raised.
GetPoolStats ==
    /\ ps_pc = "call"
    /\ \/ /\ ps_pc' = "returned"
          /\ ps_response' = Some([code |-> 200,
                                  name |-> "postgres_pool",
                                  size |-> ps_size,
                                  available |-> ps_available,
                                  waiting |-> ps_waiting,
                                  max_size |-> PoolMaxSize,
                                  min_size |-> PoolMinSize,
                                  status |-> PoolStatus(ps_size, ps_available, ps_waiting)])
       \/ /\ ps_pc' = "raised"
          /\ ps_response' = Some([code |-> 500, name |-> "", size |-> 0, available |-> 0,
                                  waiting |-> 0, max_size |-> 0, min_size |-> 0,
                                  status |-> "Failed to get pool stats"])
    /\ UNCHANGED <<ps_size, ps_available, ps_waiting, appVars, gmVars, rfVars, siVars, cpVars,
                   efVars, bgVars, lvVars,
                   dcVars>>

-----------------------------------------------------------------------------
(* The pooled connections of the request handlers: get_connection           *)
(* (app/db/__init__.py) and the with blocks of search_videos, list_videos,  *)
(* delete_video, test_database_connection and health_check.                 *)

\* The threads of the server's thread pool that run the handlers.
HdThreads == {"h1", "h2", "h3", "h4"}

\* How each handler's with block is left when nothing raises: by falling off
\* its end (search.py:116, videos.py:314, main.py:76) or by a return
\* statement inside it (videos.py:256 and 284, debug.py:93-103).
BlockExit ==
    [search_videos |-> "completed", list_videos |-> "returned",
     delete_video |-> "completed", test_database_connection |-> "returned",
     health_check |-> "completed"]

PoolHandlers == DOMAIN BlockExit

IdleHandler == [pc |-> "idle", handler |-> "", how |-> ""]

CpIdle ==
    /\ cp_leased = {}
    /\ cp_thread = [h \in HdThreads |-> IdleHandler]
    /\ cp_released = None

ReleaseUnlessRaised(leased, h, how) == IF how = "raised" THEN leased ELSE leased \ {h}

\* The exit of `with pool.connection() as conn` (app/db/__init__.py:44-45):
\* the connection goes back to the pool however the block was left.
Release(leased, h, how) == leased \ {h}

SetHandler(h, rec) ==
    /\ cp_thread' = [cp_thread EXCEPT ![h] = rec]
    /\ UNCHANGED <<appVars, gmVars, rfVars, siVars, psVars, efVars, bgVars, lvVars,
                   dcVars>>

\* A handler reaches its `with get_connection() as conn`: it gets a
\* connection when the pool has one to give, otherwise it waits.
HdEnter(h) ==
    /\ cp_thread[h].pc = "idle"
    /\ \E handler \in PoolHandlers :
         IF Cardinality(cp_leased) < PoolMaxSize
         THEN /\ cp_leased' = cp_leased \cup {h}
              /\ SetHandler(h, [pc |-> "scoped", handler |-> handler, how |-> ""])
         ELSE /\ SetHandler(h, [pc |-> "waiting", handler |-> handler, how |-> ""])
              /\ UNCHANGED cp_leased
    /\ UNCHANGED cp_released

\* A waiting handler is given a connection that was returned.
HdGranted(h) ==
    /\ cp_thread[h].pc = "waiting"
    /\ Cardinality(cp_leased) < PoolMaxSize
    /\ cp_leased' = cp_leased \cup {h}
    /\ SetHandler(h, [cp_thread[h] EXCEPT !.pc = "scoped"])
    /\ UNCHANGED cp_released

\* The wait ends with the pool's timeout (timeout=30.0, line 25): the with
\* statement raises before its block is entered.
HdTimeout(h) ==
    /\ cp_thread[h].pc = "waiting"
    /\ SetHandler(h, IdleHandler)
    /\ UNCHANGED <<cp_leased, cp_released>>

\* The body of the block: the statements run to the end of the block or to
\* its return statement, or one of them raises.
HdExecute(h) ==
    /\ cp_thread[h].pc = "scoped"
    /\ \E how \in {BlockExit[cp_thread[h].handler], "raised"} :
         SetHandler(h, [cp_thread[h] EXCEPT !.pc = "leaving", !.how = how])
    /\ UNCHANGED <<cp_leased, cp_released>>

\* Control leaves the block and the handler ends.
HdLeave(h) ==
    /\ cp_thread[h].pc = "leaving"
    /\ cp_leased' = Release(cp_leased, h, cp_thread[h].how)
    /\ cp_released' = Some(cp_thread[h].how)
    /\ SetHandler(h, IdleHandler)

-----------------------------------------------------------------------------
(* The connections of worker/utils/supabase_io.py: insert_video,            *)
(* insert_segment, update_video_status, get_video and count_segments each   *)
(* run in `with get_db_connection() as conn`.                               *)

\* get_db_connection, lines 14-21: psycopg.connect(settings.DATABASE_URL)
\* opens a connection of its own for the calling thread, whatever the pool
\* has out.
DcConnect(r) ==
    /\ r \notin dc_open
    /\ dc_open' = dc_open \cup {r}
    /\ UNCHANGED <<appVars, gmVars, rfVars, siVars, psVars, cpVars, efVars, bgVars,
                   lvVars>>

\* The statement is executed and committed and the with block is left
\* (lines 167-183, 215-225, 237-244, 257-289, 292-300): the connection is
\* closed.
DcClose(r) ==
    /\ r \in dc_open
    /\ dc_open' = dc_open \ {r}
    /\ UNCHANGED <<appVars, gmVars, rfVars, siVars, psVars, cpVars, efVars, bgVars,
                   lvVars>>

-----------------------------------------------------------------------------
(* The catalog and the blob store (worker/utils/supabase_io.py)            *)

Users == {"u1", "u2"}
VideoIds == {"v1", "v2"}
Runs == {"r1", "r2"}

\* app/core/config.py: the bucket names.
BUCKET_VIDEOS == "videos"
BUCKET_FRAMES == "frames"
BUCKET_PREVIEWS == "previews"

\* A stored reference "{bucket}/{path}" is the sequence <<bucket>> \o path, a
\* path "{user_id}/{video_id}/{filename}" the sequence of its parts.
StoredRef(bucket, path) == <<bucket>> \o path

\* upload_to_storage, lines 93-117, when the POST succeeds.
upload_to_storage(store, bucket, path) == store \cup {<<bucket, path>>}

HasVideo(tbl, video_id) == \E v \in tbl : v.id = video_id

insert_video_no_conflict_clause(tbl, row) == tbl \cup {row}

insert_video_keeping_error_msg(tbl, row) ==
    IF HasVideo(tbl, row.id)
    THEN {IF v.id = row.id
          THEN [v EXCEPT !.duration_ms = row.duration_ms,
                         !.width = row.width,
                         !.height = row.height,
                         !.status = row.status,
                         !.thumbnail_url = row.thumbnail_url]
          ELSE v : v \in tbl}
    ELSE tbl \cup {row}

\* insert_video, lines 167-183: INSERT ... ON CONFLICT (id) DO UPDATE SET
\* duration_ms, width, height, status, error_msg, thumbnail_url.
insert_video(tbl, row) ==
    IF HasVideo(tbl, row.id)
    THEN {IF v.id = row.id
          THEN [v EXCEPT !.duration_ms = row.duration_ms,
                         !.width = row.width,
                         !.height = row.height,
                         !.status = row.status,
                         !.error_msg = row.error_msg,
                         !.thumbnail_url = row.thumbnail_url]
          ELSE v : v \in tbl}
    ELSE tbl \cup {row}

\* The parameter tuple of insert_video, lines 142-152 and 182.
VideoRow(video_id, user_id, url, metadata, status, error_msg, thumbnail_url) ==
    [id |-> video_id, user_id |-> user_id, url |-> url,
     duration_ms |-> metadata.duration_ms, width |-> metadata.width,
     height |-> metadata.height, status |-> status, error_msg |-> error_msg,
     thumbnail_url |-> thumbnail_url]

update_video_status_completed_failed(tbl, video_id, status, error_msg) ==
    {IF v.id = video_id
     THEN [v EXCEPT !.status = CASE status = "ready" -> "completed"
                                 [] status = "error" -> "failed"
                                 [] OTHER -> status,
                    !.error_msg = error_msg]
     ELSE v : v \in tbl}

update_video_status_upserting(tbl, video_id, status, error_msg) ==
    IF \E v \in tbl : v.id = video_id
    THEN {IF v.id = video_id
          THEN [v EXCEPT !.status = status, !.error_msg = error_msg]
          ELSE v : v \in tbl}
    ELSE tbl \cup {[id |-> video_id, user_id |-> "", url |-> <<>>, duration_ms |-> 0,
                    width |-> 0, height |-> 0, status |-> status,
                    error_msg |-> error_msg, thumbnail_url |-> <<>>]}

\* update_video_status, lines 237-244: UPDATE ... SET status, error_msg WHERE id.
update_video_status(tbl, video_id, status, error_msg) ==
    {IF v.id = video_id
     THEN [v EXCEPT !.status = status, !.error_msg = error_msg]
     ELSE v : v \in tbl}

\* insert_segment, lines 210-225: the row it inserts.
SegmentRow(segment_id, video_id, t_start_ms, t_end_ms, frame_url, emb, modality, caption) ==
    [id |-> segment_id, video_id |-> video_id, t_start_ms |-> t_start_ms,
     t_end_ms |-> t_end_ms, modality |-> modality, frame_url |-> frame_url,
     emb |-> emb, caption |-> caption]

insert_segment_replacing(tbl, row) ==
    {s \in tbl : ~(s.video_id = row.video_id /\ s.t_start_ms = row.t_start_ms)}
        \cup {row}

\* insert_segment, lines 209-223: a plain INSERT under a fresh uuid.
insert_segment(tbl, row) == tbl \cup {row}

\* count_segments, lines 291-300: SELECT COUNT(*) FROM public.segments WHERE
\* video_id = %s.
count_segments(tbl, video_id) == Cardinality({s \in tbl : s.video_id = video_id})

\* DELETE FROM public.videos WHERE id (videos.py:310-313); the segments of the
\* video go with it (ON DELETE CASCADE, videos.py:307).
DeleteVideoRows(tbl, video_id) == {v \in tbl : v.id # video_id}
DeleteSegmentRows(tbl, video_id) == {s \in tbl : s.video_id # video_id}

-----------------------------------------------------------------------------
(* extract_frames (worker/utils/ffmpeg.py)                                  *)

\* probe_video on a readable file (ffmpeg.py:50-55).
Metadata == [duration_ms |-> 3000, width |-> 640, height |-> 360]

\* Line 107: frame_size = width * height * 3.
FrameSize == Metadata.width * Metadata.height * 3

\* Lines 124-127: timestamp_sec = frame_idx / fps, plus start_time when it is
\* given; timestamp_ms = int(timestamp_sec * 1000).  fps is the fraction
\* fps[1] / fps[2] and start_time is in milliseconds; on the rates and start
\* times of the model the float arithmetic gives the exact value, truncated.
TimestampMs(frame_idx, fps, start_time) ==
    LET start_ms == IF start_time = None THEN 0 ELSE start_time[1]
    IN  (frame_idx * fps[2] * 1000 + start_ms * fps[1]) \div fps[1]

IsEmptyRead(raw_len, frame_size) == raw_len = 0

\* Line 113: not raw_frame or len(raw_frame) < frame_size.
IsShortRead(raw_len, frame_size) == raw_len = 0 \/ raw_len < frame_size

EfIdle ==
    /\ ef_pc = "idle"
    /\ ef_fps = <<1, 1>>
    /\ ef_start_time = None
    /\ ef_stdout = 0
    /\ ef_pos = 0
    /\ ef_frame_idx = 0
    /\ ef_yielded = <<>>

\* Lines 84-107: the file is probed and the decoder started; a failure is
\* re-raised as a RuntimeError (lines 137-140).
EfEntry ==
    /\ ef_pc = "call"
    /\ \/ ef_pc' = "read" /\ ef_frame_idx' = 0
       \/ ef_pc' = "raised" /\ UNCHANGED ef_frame_idx
    /\ UNCHANGED <<ef_fps, ef_start_time, ef_stdout, ef_pos, ef_yielded,
                   appVars, gmVars, rfVars, siVars, psVars, cpVars, bgVars, lvVars,
                   dcVars>>

\* Lines 109-131, one iteration: read(frame_size) returns the bytes the pipe
\* still holds, frame_size of them at most; a short read ends the loop, a
\* full one is yielded with its timestamp.
EfRead ==
    /\ ef_pc = "read"
    /\ LET left == ef_stdout - ef_pos
           raw_len == IF left < FrameSize THEN left ELSE FrameSize
       IN  /\ ef_pos' = ef_pos + raw_len
           /\ IF IsShortRead(raw_len, FrameSize)
              THEN /\ ef_pc' = "ended"
                   /\ UNCHANGED <<ef_frame_idx, ef_yielded>>
              ELSE /\ ef_yielded' = Append(ef_yielded,
                                           TimestampMs(ef_frame_idx, ef_fps, ef_start_time))
                   /\ ef_frame_idx' = ef_frame_idx + 1
                   /\ UNCHANGED ef_pc
    /\ UNCHANGED <<ef_fps, ef_start_time, ef_stdout,
                   appVars, gmVars, rfVars, siVars, psVars, cpVars, bgVars, lvVars,
                   dcVars>>

-----------------------------------------------------------------------------
(* ingest_video and process_frame_batch (worker/ingest_video.py)           *)

\* The timestamps ingest_video receives: extract_frames(video_path, fps=fps)
\* at fps = 1.0 and no start_time (line 137; videos.py:85).
FrameTimestamp(frame_idx) == TimestampMs(frame_idx, <<1, 1>>, None)

\* EmbeddingModel.encode_images_batch and generate_captions_batch as functions
\* of the frame, which its timestamp identifies.
FrameEmbedding(timestamp_ms) == timestamp_ms
FrameCaption(timestamp_ms) == "caption"

\* Line 85: storage_path of the original; line 141: thumbnail_path;
\* lines 255-256: frame_path.
OriginalPath(user_id, video_id) == <<user_id, video_id, <<"video.mp4">>>>
ThumbnailPath(user_id, video_id) == <<user_id, video_id, <<"thumbnail.jpg">>>>
FramePath(user_id, video_id, timestamp_ms) ==
    <<user_id, video_id, <<"frame", timestamp_ms, ".jpg">>>>

SegmentFrameUrlInPreviews(frame_path) == StoredRef(BUCKET_PREVIEWS, frame_path)

\* Line 271: frame_url=f"{settings.BUCKET_FRAMES}/{frame_path}".
SegmentFrameUrl(frame_path) == StoredRef(BUCKET_FRAMES, frame_path)

\* The message of the exception a failing call raises.
ProbeError == "probe failed"
StorageError == "storage request failed"
CatalogError == "database error"
ProviderError == "model error"
ExtractError == "frame extraction failed"

IdleRun ==
    [pc |-> "idle", video_id |-> "", user_id |-> "", upload_video |-> FALSE,
     video_url |-> None, frames_extracted |-> 0, frame_buffer |-> <<>>,
     last_batch |-> FALSE, i |-> 0, segments_inserted |-> 0,
     first_frame_uploaded |-> FALSE, exc |-> None, status_updated |-> FALSE]

\* The states in which ingest_video has returned or raised.
Terminal == {"returned", "raised"}

\* run_ingestion (videos.py:79-97) before its thread is started, and before
\* upload_video has saved the temp file (lines 67-76).
IdleThread == [pc |-> "idle", caught |-> None, escaped |-> None, cleaned |-> FALSE,
               temp_file |-> FALSE, remove_failed |-> FALSE]

BgIdle == bg_thread = [r \in Runs |-> IdleThread]

\* list_videos before it is called.
LvIdle ==
    /\ lv_pc = "idle"
    /\ lv_rows = <<>>
    /\ lv_tasks = <<>>
    /\ lv_results = <<>>
    /\ lv_response = <<>>

\* No thread holds a connection of its own.
DcIdle == dc_open = {}

SetRun(r, rec) == run' = [run EXCEPT ![r] = rec]

\* An exception leaves the try block for the handler at line 213.
Raise(r, message) ==
    SetRun(r, [run[r] EXCEPT !.pc = "except", !.exc = Some(message)])

\* ingest_video is called (videos.py:81-88, ingest_video.py:306-313).
IngestStart(r) ==
    /\ run[r].pc = "idle"
    /\ \E video_id \in VideoIds, user_id \in Users, upload_video \in BOOLEAN :
           SetRun(r, [IdleRun EXCEPT !.pc = "probe", !.video_id = video_id,
                                     !.user_id = user_id,
                                     !.upload_video = upload_video])
    /\ http' = None
    /\ UNCHANGED <<catalogVars, gmVars, libVars>>

\* Step 1, lines 69-78.
Probe(r) ==
    /\ run[r].pc = "probe"
    /\ \/ SetRun(r, [run[r] EXCEPT !.pc = "upload_original"])
       \/ Raise(r, ProbeError)
    /\ http' = None
    /\ UNCHANGED <<catalogVars, gmVars, libVars>>

\* Step 2, lines 80-100.
UploadOriginal(r) ==
    /\ run[r].pc = "upload_original"
    /\ LET c == run[r]
       IN  IF c.upload_video
           THEN \/ /\ blobs' = upload_to_storage(blobs, BUCKET_VIDEOS,
                                                 OriginalPath(c.user_id, c.video_id))
                   /\ SetRun(r, [c EXCEPT !.pc = "insert_video",
                                          !.video_url = Some(StoredRef(BUCKET_VIDEOS,
                                              OriginalPath(c.user_id, c.video_id)))])
                \/ /\ Raise(r, StorageError)
                   /\ UNCHANGED blobs
           ELSE /\ SetRun(r, [c EXCEPT !.pc = "insert_video",
                                       !.video_url = Some(<<"local:", <<"video.mp4">>>>)])
                /\ UNCHANGED blobs
    /\ http' = None
    /\ UNCHANGED <<videos, segments, gmVars, libVars>>

\* Step 3, lines 102-113.
InsertVideoRecord(r) ==
    /\ run[r].pc = "insert_video"
    /\ LET c == run[r]
       IN  \/ /\ videos' = insert_video(videos,
                              VideoRow(c.video_id, c.user_id, c.video_url[1], Metadata,
                                       "processing", None, None))
              /\ SetRun(r, [c EXCEPT !.pc = "load_models"])
           \/ /\ Raise(r, CatalogError)
              /\ UNCHANGED videos
    /\ http' = None
    /\ UNCHANGED <<segments, blobs, gmVars, libVars>>

\* Step 4, lines 115-126.
LoadModels(r) ==
    /\ run[r].pc = "load_models"
    /\ \/ SetRun(r, [run[r] EXCEPT !.pc = "next_frame"])
       \/ Raise(r, ProviderError)
    /\ http' = None
    /\ UNCHANGED <<catalogVars, gmVars, libVars>>

BufferOverfull(frame_buffer, batch_size) == Len(frame_buffer) > batch_size

\* Line 169: len(frame_buffer) >= batch_size.
BufferFull(frame_buffer, batch_size) == Len(frame_buffer) >= batch_size

\* Lines 164-178 up to the call of process_frame_batch: the frame joins the
\* buffer, and a full buffer is processed.
BufferFrame(c, timestamp_ms) ==
    LET buf == Append(c.frame_buffer, timestamp_ms)
    IN  [c EXCEPT !.frame_buffer = buf,
                  !.frames_extracted = @ + 1,
                  !.pc = IF BufferFull(buf, BatchSize) THEN "encode_batch" ELSE "next_frame"]

NeedsThumbnailAlways(c) == TRUE

\* Line 139: if not first_frame_uploaded.
NeedsThumbnail(c) == ~c.first_frame_uploaded

AtStreamEndDroppingRemainder(c) == [c EXCEPT !.pc = "finalize"]

\* Lines 182-197: when the stream has ended the remaining frames are
\* processed as the last batch, if there are any; then comes step 6.
AtStreamEnd(c) ==
    IF c.frame_buffer # <<>>
    THEN [c EXCEPT !.pc = "encode_batch", !.last_batch = TRUE]
    ELSE [c EXCEPT !.pc = "finalize"]

\* Line 137: the generator yields its next frame, ends, or raises.  A file of
\* any length up to MaxFrames is read: the stream may end after any frame.
NextFrame(r) ==
    /\ run[r].pc = "next_frame"
    /\ LET c == run[r]
       IN  \/ /\ c.frames_extracted < MaxFrames
              /\ IF NeedsThumbnail(c)
                 THEN SetRun(r, [c EXCEPT !.pc = "upload_thumbnail"])
                 ELSE SetRun(r, BufferFrame(c, FrameTimestamp(c.frames_extracted)))
           \/ \* the stream ends: lines 182-190, then step 6
              SetRun(r, AtStreamEnd(c))
           \/ Raise(r, ExtractError)
    /\ http' = None
    /\ UNCHANGED <<catalogVars, gmVars, libVars>>

\* Lines 139-148: the first frame is uploaded as the thumbnail.
UploadThumbnail(r) ==
    /\ run[r].pc = "upload_thumbnail"
    /\ LET c == run[r]
       IN  \/ /\ blobs' = upload_to_storage(blobs, BUCKET_FRAMES,
                                            ThumbnailPath(c.user_id, c.video_id))
              /\ SetRun(r, [c EXCEPT !.pc = "upsert_thumbnail"])
           \/ /\ Raise(r, StorageError)
              /\ UNCHANGED blobs
    /\ http' = None
    /\ UNCHANGED <<videos, segments, gmVars, libVars>>

\* Lines 150-166: the record is upserted with the thumbnail reference, then
\* the frame joins the buffer.
UpsertThumbnail(r) ==
    /\ run[r].pc = "upsert_thumbnail"
    /\ LET c == run[r]
       IN  \/ /\ videos' = insert_video(videos,
                              VideoRow(c.video_id, c.user_id, c.video_url[1], Metadata,
                                       "processing", None,
                                       Some(StoredRef(BUCKET_FRAMES,
                                            ThumbnailPath(c.user_id, c.video_id)))))
              /\ SetRun(r, BufferFrame([c EXCEPT !.first_frame_uploaded = TRUE],
                                       FrameTimestamp(c.frames_extracted)))
           \/ /\ Raise(r, CatalogError)
              /\ UNCHANGED videos
    /\ http' = None
    /\ UNCHANGED <<segments, blobs, gmVars, libVars>>

\* process_frame_batch, lines 246-250: embeddings and captions of the batch.
EncodeBatch(r) ==
    /\ run[r].pc = "encode_batch"
    /\ \/ SetRun(r, [run[r] EXCEPT !.pc = "upload_frame", !.i = 1])
       \/ Raise(r, ProviderError)
    /\ http' = None
    /\ UNCHANGED <<catalogVars, gmVars, libVars>>

\* process_frame_batch, lines 253-264: the i-th frame of the batch is uploaded.
UploadFrame(r) ==
    /\ run[r].pc = "upload_frame"
    /\ LET c == run[r]
           frame_path == FramePath(c.user_id, c.video_id, c.frame_buffer[c.i])
       IN  \/ /\ blobs' = upload_to_storage(blobs, BUCKET_FRAMES, frame_path)
              /\ SetRun(r, [c EXCEPT !.pc = "insert_segment"])
           \/ /\ Raise(r, StorageError)
              /\ UNCHANGED blobs
    /\ http' = None
    /\ UNCHANGED <<videos, segments, gmVars, libVars>>

\* After the last frame of a batch: process_frame_batch returns len(frames),
\* lines 170-178 and 184-190.
AfterBatch(c) ==
    IF c.last_batch
    THEN [c EXCEPT !.pc = "finalize",
                   !.segments_inserted = @ + Len(c.frame_buffer), !.i = 0]
    ELSE [c EXCEPT !.pc = "next_frame",
                   !.segments_inserted = @ + Len(c.frame_buffer),
                   !.frame_buffer = <<>>, !.i = 0]

\* process_frame_batch, lines 266-275: the segment of the i-th frame is
\* inserted.  The insert raises when its video row is gone (foreign key).
InsertSegment(r) ==
    /\ run[r].pc = "insert_segment"
    /\ LET c == run[r]
           timestamp_ms == c.frame_buffer[c.i]
           frame_path == FramePath(c.user_id, c.video_id, timestamp_ms)
       IN  \/ /\ HasVideo(videos, c.video_id)
              /\ segments' = insert_segment(segments,
                                 SegmentRow(<<r, timestamp_ms>>, c.video_id,
                                            timestamp_ms, timestamp_ms,
                                            SegmentFrameUrl(frame_path),
                                            FrameEmbedding(timestamp_ms), "vision",
                                            Some([text |-> FrameCaption(timestamp_ms)])))
              /\ SetRun(r, IF c.i < Len(c.frame_buffer)
                           THEN [c EXCEPT !.pc = "upload_frame", !.i = @ + 1]
                           ELSE AfterBatch(c))
           \/ /\ Raise(r, CatalogError)
              /\ UNCHANGED segments
    /\ http' = None
    /\ UNCHANGED <<videos, blobs, gmVars, libVars>>

\* Step 6, lines 195-211.
Finalize(r) ==
    /\ run[r].pc = "finalize"
    /\ LET c == run[r]
       IN  \/ /\ videos' = update_video_status(videos, c.video_id, "ready", None)
              /\ SetRun(r, [IdleRun EXCEPT !.pc = "returned", !.video_id = c.video_id,
                                           !.user_id = c.user_id,
                                           !.frames_extracted = c.frames_extracted,
                                           !.segments_inserted = c.segments_inserted])
           \/ /\ Raise(r, CatalogError)
              /\ UNCHANGED videos
    /\ http' = None
    /\ UNCHANGED <<segments, blobs, gmVars, libVars>>

RaisedFromUpdate(e, update_exc) == IF update_exc # None THEN update_exc ELSE e

\* Lines 217-223: `except: pass` ends the handling of the update's exception,
\* and the bare raise re-raises the exception the outer handler caught.
Reraised(e, update_exc) == e

\* Lines 213-223: the handler updates the status to error, swallows a failure
\* of that update, and re-raises.
HandleException(r) ==
    /\ run[r].pc = "except"
    /\ LET c == run[r]
           raised == [IdleRun EXCEPT !.pc = "raised", !.video_id = c.video_id,
                                     !.user_id = c.user_id]
       IN  \/ /\ videos' = update_video_status(videos, c.video_id, "error", c.exc)
              /\ SetRun(r, [raised EXCEPT !.status_updated = TRUE,
                                          !.exc = Reraised(c.exc, None)])
           \/ \* update_video_status raises
              /\ SetRun(r, [raised EXCEPT !.exc = Reraised(c.exc, Some(CatalogError))])
              /\ UNCHANGED videos
    /\ http' = None
    /\ UNCHANGED <<segments, blobs, gmVars, libVars>>

\* The steps of a run that has been started.
IngestBody(r) ==
    \/ Probe(r)
    \/ UploadOriginal(r)
    \/ InsertVideoRecord(r)
    \/ LoadModels(r)
    \/ NextFrame(r)
    \/ UploadThumbnail(r)
    \/ UpsertThumbnail(r)
    \/ EncodeBatch(r)
    \/ UploadFrame(r)
    \/ InsertSegment(r)
    \/ Finalize(r)
    \/ HandleException(r)

IngestStep(r) == IngestStart(r) \/ IngestBody(r)

-----------------------------------------------------------------------------
(* run_ingestion, the background thread of upload_video                     *)
(* (app/routers/videos.py)                                                  *)

\* Line 89: `except Exception` catches every exception ingest_video raises;
\* the exceptions of the model are all of class Exception.
IsException(exc) == exc \in {Some(ProbeError), Some(StorageError), Some(CatalogError),
                             Some(ProviderError), Some(ExtractError)}

\* videos.py:64-100: the handler draws a fresh video id, saves the upload to
\* the temp file and starts the thread, which calls
\* ingest_video(..., upload_video=True).
BgStart(r) ==
    /\ run[r].pc = "idle"
    /\ bg_thread[r].pc = "idle"
    /\ \E video_id \in VideoIds, user_id \in Users :
          /\ ~HasVideo(videos, video_id)
          /\ \A q \in Runs : run[q].video_id # video_id
          /\ SetRun(r, [IdleRun EXCEPT !.pc = "probe", !.video_id = video_id,
                                       !.user_id = user_id, !.upload_video = TRUE])
    /\ bg_thread' = [bg_thread EXCEPT ![r].pc = "running", ![r].temp_file = TRUE]
    /\ http' = None
    /\ UNCHANGED <<catalogVars, gmVars, rfVars, siVars, psVars, cpVars, efVars, lvVars, dcVars>>

\* Lines 80-90: ingest_video returns, or raises and the exception is caught
\* and printed.
BgExcept(r) ==
    /\ bg_thread[r].pc = "running"
    /\ run[r].pc \in Terminal
    /\ bg_thread' = [bg_thread EXCEPT ![r] =
          IF run[r].exc = None \/ IsException(run[r].exc)
          THEN [@ EXCEPT !.pc = "finally", !.caught = run[r].exc]
          ELSE [@ EXCEPT !.pc = "finally", !.escaped = run[r].exc]]
    /\ UNCHANGED <<appVars, gmVars, rfVars, siVars, psVars, cpVars, efVars, lvVars, dcVars>>

CleansUpAfterFailure(caught) == caught # None

\* Line 91: the cleanup is a finally clause; it runs whether ingest_video
\* returned or its exception was caught.
CleansUp(caught) == TRUE

\* Lines 91-97: the temp file and directory are removed; a failure of the
\* removal is swallowed and leaves the file.  Then the thread ends.
BgFinally(r) ==
    /\ bg_thread[r].pc = "finally"
    /\ IF CleansUp(bg_thread[r].caught)
       THEN \E failed \in BOOLEAN :
               bg_thread' = [bg_thread EXCEPT ![r].pc = "ended",
                                              ![r].cleaned = ~failed,
                                              ![r].remove_failed = failed,
                                              ![r].temp_file = failed]
       ELSE bg_thread' = [bg_thread EXCEPT ![r].pc = "ended"]
    /\ UNCHANGED <<appVars, gmVars, rfVars, siVars, psVars, cpVars, efVars, lvVars, dcVars>>

AppInit ==
    /\ videos = {}
    /\ segments = {}
    /\ blobs = {}
    /\ run = [r \in Runs |-> IdleRun]
    /\ http = None

Init == AppInit /\ GmIdle /\ RfIdle /\ SiIdle /\ PsIdle /\ CpIdle /\ EfIdle /\ BgIdle /\ LvIdle /\ DcIdle

Next == \E r \in Runs : IngestStep(r)

Spec == Init /\ [][Next]_vars

-----------------------------------------------------------------------------
(* search_videos (app/routers/search.py)                                   *)

Queries == {"q1", "q2"}
EmptyQuery == ""
BlankQuery == "  "
TopKs == {1, 2}
MinScores == {50000, 90000}

SearchRequests ==
    [query : Queries \cup {EmptyQuery, BlankQuery}, user_id : Users, top_k : TopKs,
     min_score : MinScores, video_id : {None} \cup {Some(v) : v \in VideoIds}]

\* str.strip() on the query texts of the model.
Strip(query) == IF query = BlankQuery THEN EmptyQuery ELSE query

IsEmptyText(query) == query = EmptyQuery

\* Line 53: not request.query or len(request.query.strip()) == 0.
IsBlank(query) == query = EmptyQuery \/ Strip(query) = EmptyQuery

\* Line 74: 1 - (s.emb <=> query_embedding), the cosine similarity of the
\* segment's embedding and the query's: q1 tells the frames apart, q2 scores
\* every frame alike.
QueryScore(query, emb) ==
    IF query = "q1"
    THEN CASE emb = 0 -> 90000
           [] emb = 1000 -> 50000
           [] emb = 2000 -> 95000
           [] OTHER -> 40000
    ELSE 70000

OwnedByAnyone(v, user_id) == TRUE

\* Lines 78 and 103: WHERE v.user_id = %s.
OwnedBy(v, user_id) == v.user_id = user_id

NotInError(v) == v.status # "error"

\* Lines 79 and 104: AND v.status = 'ready'.
IsReady(v) == v.status = "ready"

\* Lines 66 and 80: AND s.video_id = %s, when the request names a video.
InScope(s, video_id) == video_id = None \/ s.video_id = video_id[1]

\* Lines 76-80 and 101-104: FROM segments s JOIN videos v ON s.video_id = v.id
\* WHERE ...
AnnCandidates(vtbl, stbl, user_id, video_id) ==
    {s \in stbl : /\ \E v \in vtbl : /\ s.video_id = v.id
                                     /\ OwnedBy(v, user_id)
                                     /\ IsReady(v)
                  /\ InScope(s, video_id)}

\* Lines 69-75: the columns selected.
AnnRow(s, query) ==
    [segment_id |-> s.id, video_id |-> s.video_id, timestamp_ms |-> s.t_start_ms,
     frame_url |-> s.frame_url, score |-> QueryScore(query, s.emb),
     caption |-> s.caption]

Min(a, b) == IF a < b THEN a ELSE b

\* Lines 81-82 and 105-106: ORDER BY distance LIMIT top_k.  The row lists the
\* query may return: the order of rows at the same distance is not fixed.
AnnQuery(vtbl, stbl, query, user_id, video_id, top_k) ==
    LET cand == AnnCandidates(vtbl, stbl, user_id, video_id)
        n == Min(top_k, Cardinality(cand))
        score(s) == QueryScore(query, s.emb)
    IN  {[i \in 1..n |-> AnnRow(f[i], query)] :
            f \in {g \in [1..n -> cand] :
                     /\ \A i, j \in 1..n : i < j =>
                            /\ g[i] # g[j]
                            /\ score(g[i]) >= score(g[j])
                     /\ \A s \in cand \ {g[i] : i \in 1..n} :
                            \A i \in 1..n : score(g[i]) >= score(s)}}

FilterByScoreStrict(rows, min_score) ==
    SelectSeq(rows, LAMBDA row : row.score > min_score)

\* Line 140: the rows with score >= min_score, in order.
FilterByScore(rows, min_score) == SelectSeq(rows, LAMBDA row : row.score >= min_score)

\* Lines 158-161: the bucket prefix is stripped from the frame reference.
PreviewPath(frame_url) ==
    IF Len(frame_url) >= 1 /\ Head(frame_url) = BUCKET_FRAMES
    THEN Tail(frame_url)
    ELSE frame_url

\* get_signed_url, supabase_io.py:50-70, when the store signs.
get_signed_url(bucket, path) == <<"signed", bucket, path>>

\* round(score, 4), line 173, on a score in units of 0.00001: to the nearest
\* multiple of 10, a half to the even one.
Round4(score) ==
    LET r == score % 10
        down == score - r
    IN  IF r < 5 THEN down
        ELSE IF r > 5 THEN down + 10
        ELSE IF (down \div 10) % 2 = 0 THEN down ELSE down + 10

\* Lines 151-176: the fields handed to SearchResult for one moment;
\* preview_url is None when get_signed_url raised (lines 163-167).
SearchResultFields(moment, signed) ==
    [video_id |-> moment.video_id,
     segment_id |-> moment.segment_id,
     timestamp_ms |-> moment.timestamp_ms,
     score |-> Round4(moment.score),
     preview_url |-> IF signed
                     THEN Some(get_signed_url(BUCKET_FRAMES, PreviewPath(moment.frame_url)))
                     ELSE None,
     caption |-> IF moment.caption # None THEN Some(moment.caption[1].text) ELSE None]

\* SearchResult, lines 25-32: preview_url is declared str, so the model
\* rejects None (a ValidationError).
SearchResultValid(fields) == fields.preview_url # None

\* Lines 149-176: the loop over moments[:top_k]; signed[i] tells whether the
\* store signs the i-th preview.  The loop ends at the first SearchResult that
\* does not validate.
RECURSIVE BuildResults(_, _, _, _)
BuildResults(moments, signed, i, acc) ==
    IF i > Len(moments) THEN acc
    ELSE LET fields == SearchResultFields(moments[i], signed[i])
             logged == IF signed[i] THEN acc.logged
                       ELSE acc.logged \cup {moments[i].frame_url}
         IN  IF SearchResultValid(fields)
             THEN BuildResults(moments, signed, i + 1,
                               [acc EXCEPT !.results = Append(@, fields),
                                           !.logged = logged])
             ELSE [acc EXCEPT !.logged = logged, !.raised = TRUE]

TopMomentsOffByOne(moments, top_k) ==
    SubSeq(moments, 2, Min(top_k + 1, Len(moments)))

\* Line 149: moments[:request.top_k].
TopMoments(moments, top_k) == SubSeq(moments, 1, Min(top_k, Len(moments)))

\* The exchange a handler leaves behind: its request, the calls it made of
\* the embedding provider, the connection pool and the blob store, what it
\* read and printed, and the response.
Exchange(handler, request, calls, rows, filtered_rows, moments, logged, status, body) ==
    [handler |-> handler, request |-> request, calls |-> calls, rows |-> rows,
     filtered_rows |-> filtered_rows, moments |-> moments,
     logged |-> logged, status |-> status, body |-> body]

\* A call of a collaborator and whether it raised.
Call(name, raised) == [call |-> name, raised |-> raised]

EncodeFailureAsNoResults(req) ==
    Exchange("search", req, <<Call("encode_text", TRUE)>>, <<>>, <<>>, <<>>, {}, 200,
             Some([results |-> <<>>, query |-> req.query, count |-> 0]))

\* Lines 57-60: encode_text raised; the handler raises HTTPException(500).
EncodeFailure(req) ==
    Exchange("search", req, <<Call("encode_text", TRUE)>>, <<>>, <<>>, <<>>, {}, 500,
             Some("Failed to encode query"))

\* search_videos, lines 43-182.
SearchVideos ==
    /\ http = None
    /\ \E req \in SearchRequests :
        \/ \* lines 53-54
           /\ IsBlank(req.query)
           /\ http' = Some(Exchange("search", req, <<>>, <<>>, <<>>, <<>>, {}, 400,
                                    Some("Query cannot be empty")))
        \/ \* lines 57-60: encode_text raises
           /\ ~IsBlank(req.query)
           /\ http' = Some(EncodeFailure(req))
        \/ \* lines 63-116: the connection or the query raises
           /\ ~IsBlank(req.query)
           /\ http' = Some(Exchange("search", req,
                                    <<Call("encode_text", FALSE), Call("get_connection", TRUE)>>,
                                    <<>>, <<>>, <<>>, {}, 500,
                                    Some("Internal Server Error")))
        \/ \* lines 63-182
           /\ ~IsBlank(req.query)
           /\ \E rows \in AnnQuery(videos, segments, req.query, req.user_id,
                                   req.video_id, req.top_k) :
                LET filtered_rows == FilterByScore(rows, req.min_score)
                    moments == group_into_moments(filtered_rows, TimeThresholdMs)
                    shown == TopMoments(moments, req.top_k)
                IN  \E signed \in [1..Len(shown) -> BOOLEAN] :
                      LET built == BuildResults(shown, signed, 1,
                                       [results |-> <<>>, logged |-> {}, raised |-> FALSE])
                          \* one get_signed_url per moment the loop reached
                          calls == <<Call("encode_text", FALSE),
                                     Call("get_connection", FALSE)>> \o
                                   [i \in 1..(Len(built.results) +
                                              IF built.raised THEN 1 ELSE 0)
                                      |-> Call("get_signed_url", ~signed[i])]
                      IN  http' =
                            IF built.raised
                            THEN Some(Exchange("search", req, calls, rows, filtered_rows, moments,
                                               built.logged, 500,
                                               Some("Internal Server Error")))
                            ELSE Some(Exchange("search", req, calls, rows, filtered_rows, moments,
                                               built.logged, 200,
                                               Some([results |-> built.results,
                                                     query |-> req.query,
                                                     count |-> Len(built.results)])))
    /\ UNCHANGED <<catalogVars, run, gmVars, libVars>>

-----------------------------------------------------------------------------
(* delete_video (app/routers/videos.py)                                    *)

AccessDeniedNever(tbl, video_id, user_id) == FALSE

\* Lines 137 and 303: str(video['user_id']) != user_id, on the record
\* get_video found.
AccessDenied(tbl, video_id, user_id) ==
    \E v \in tbl : v.id = video_id /\ v.user_id # user_id

\* delete_video, lines 287-316.
DeleteVideo ==
    /\ http = None
    /\ \E video_id \in VideoIds, user_id \in Users :
         LET req == [video_id |-> video_id, user_id |-> user_id]
         IN  IF ~HasVideo(videos, video_id)
             THEN /\ http' = Some(Exchange("delete_video", req, <<Call("get_video", FALSE)>>,
                                           <<>>, <<>>, <<>>, {}, 404,
                                           Some("Video not found")))
                  /\ UNCHANGED <<videos, segments>>
             ELSE IF AccessDenied(videos, video_id, user_id)
             THEN /\ http' = Some(Exchange("delete_video", req, <<Call("get_video", FALSE)>>,
                                           <<>>, <<>>, <<>>, {}, 403,
                                           Some("Access denied")))
                  /\ UNCHANGED <<videos, segments>>
             ELSE /\ videos' = DeleteVideoRows(videos, video_id)
                  /\ segments' = DeleteSegmentRows(segments, video_id)
                  /\ http' = Some(Exchange("delete_video", req,
                                           <<Call("get_video", FALSE),
                                             Call("get_connection", FALSE)>>,
                                           <<>>, <<>>, <<>>, {}, 200,
                                           Some("Video deleted successfully")))
    /\ UNCHANGED <<blobs, run, gmVars, libVars>>

\* A handler returns (search.py:178-182, videos.py:316): its response is sent
\* and the next request is taken.  Handlers are modelled as atomic, one
\* exchange at a time; ingestion threads run on regardless.
Respond ==
    /\ http # None
    /\ http' = None
    /\ UNCHANGED <<catalogVars, run, gmVars, libVars>>

\* get_video_details, lines 119-177: not found, access denied, or the record
\* with the signed URLs of its references; a reference the store does not
\* sign leaves its URL None.
GetVideoDetails ==
    /\ http = None
    /\ \E video_id \in VideoIds, user_id \in Users :
         LET req == [video_id |-> video_id, user_id |-> user_id]
         IN  IF ~HasVideo(videos, video_id)
             THEN http' = Some(Exchange("get_video_details", req,
                                        <<Call("get_video", FALSE)>>,
                                        <<>>, <<>>, <<>>, {}, 404,
                                        Some("Video not found")))
             ELSE IF AccessDenied(videos, video_id, user_id)
             THEN http' = Some(Exchange("get_video_details", req,
                                        <<Call("get_video", FALSE)>>,
                                        <<>>, <<>>, <<>>, {}, 403,
                                        Some("Access denied")))
             ELSE \E thumb_ok, video_ok \in BOOLEAN :
                    LET video == CHOOSE v \in videos : v.id = video_id
                    IN  /\ video.thumbnail_url = None => thumb_ok
                        /\ http' = Some(Exchange("get_video_details", req,
                               <<Call("get_video", FALSE)>>, <<>>, <<>>, <<>>, {}, 200,
                               Some([id |-> video.id, user_id |-> video.user_id,
                                     url |-> video.url, status |-> video.status,
                                     error_msg |-> video.error_msg,
                                     thumbnail_url |->
                                        IF video.thumbnail_url # None /\ thumb_ok
                                        THEN Some(get_signed_url(
                                                 Head(video.thumbnail_url[1]),
                                                 Tail(video.thumbnail_url[1])))
                                        ELSE None,
                                     video_url |->
                                        IF video_ok
                                        THEN Some(get_signed_url(Head(video.url),
                                                                 Tail(video.url)))
                                        ELSE None])))
    /\ UNCHANGED <<catalogVars, run, gmVars, libVars>>

-----------------------------------------------------------------------------
(* list_videos (app/routers/videos.py)                                     *)

\* Lines 202-204 and 212-214: parts = raw.split('/', 1); a reference
\* "{bucket}/{path}" has two parts, one without a slash has one.
HasTwoParts(ref) == Len(ref) >= 2

\* _generate_signed_urls_for_video, lines 179-227: the dict for one row;
\* thumb_ok and video_ok tell whether the store signs the two references.  A
\* reference that is missing or that the store does not sign leaves its URL
\* None.
SignedUrlsForVideo(row, thumb_ok, video_ok) ==
    [id |-> row.id, user_id |-> row.user_id, url |-> row.url,
     duration_ms |-> row.duration_ms, status |-> row.status,
     created_at |-> row.created_at,
     thumbnail_url |->
        IF row.thumbnail_url # None /\ HasTwoParts(row.thumbnail_url[1]) /\ thumb_ok
        THEN Some(get_signed_url(Head(row.thumbnail_url[1]), Tail(row.thumbnail_url[1])))
        ELSE None,
     video_url |->
        IF row.url # <<>> /\ HasTwoParts(row.url) /\ video_ok
        THEN Some(get_signed_url(Head(row.url), Tail(row.url)))
        ELSE None]

InCompletionOrder(results) == results

\* Line 277: results.sort(key=lambda x: x[0]); the idx are distinct.
SortByIdx(results) ==
    [k \in DOMAIN results |->
        results[CHOOSE j \in DOMAIN results :
                   Cardinality({m \in DOMAIN results :
                                   results[m][1] < results[j][1]}) = k - 1]]

PendingFuture == [state |-> "pending", thumb_ok |-> TRUE, video_ok |-> TRUE,
                  result |-> None]

\* Lines 243-264: the rows are fetched; without rows the handler returns [],
\* otherwise one task per row is submitted to the executor (whose 20 threads
\* are more than the rows of the model).
LvEntry ==
    /\ lv_pc = "call"
    /\ IF lv_rows = <<>>
       THEN /\ lv_pc' = "returned"
            /\ lv_response' = <<>>
            /\ UNCHANGED lv_tasks
       ELSE /\ lv_pc' = "collect"
            /\ lv_tasks' = [i \in DOMAIN lv_rows |-> PendingFuture]
            /\ UNCHANGED lv_response
    /\ UNCHANGED <<lv_rows, lv_results, appVars, gmVars, rfVars, siVars, psVars,
                   cpVars, efVars, bgVars, dcVars>>

\* A worker thread runs _generate_signed_urls_for_video for the i-th row;
\* each of its two calls of get_signed_url is answered or raises.
LvTask(i) ==
    /\ lv_pc = "collect"
    /\ lv_tasks[i].state = "pending"
    /\ \E thumb_ok, video_ok \in BOOLEAN :
          /\ lv_rows[i].thumbnail_url = None => thumb_ok
          /\ lv_tasks' = [lv_tasks EXCEPT ![i] =
                [state |-> "done", thumb_ok |-> thumb_ok, video_ok |-> video_ok,
                 result |-> Some(SignedUrlsForVideo(lv_rows[i], thumb_ok, video_ok))]]
    /\ UNCHANGED <<lv_pc, lv_rows, lv_results, lv_response, appVars, gmVars, rfVars,
                   siVars, psVars, cpVars, efVars, bgVars, dcVars>>

\* Lines 268-274: as_completed yields a finished future; its result joins
\* `results` under the idx of its row (enumerate counts from 0).
LvCollect(i) ==
    /\ lv_pc = "collect"
    /\ lv_tasks[i].state = "done"
    /\ lv_results' = Append(lv_results, <<i - 1, lv_tasks[i].result[1]>>)
    /\ lv_tasks' = [lv_tasks EXCEPT ![i].state = "collected"]
    /\ UNCHANGED <<lv_pc, lv_rows, lv_response, appVars, gmVars, rfVars, siVars,
                   psVars, cpVars, efVars, bgVars, dcVars>>

\* Lines 276-284: every future has been collected; sort, build the response,
\* return.
LvExit ==
    /\ lv_pc = "collect"
    /\ \A i \in DOMAIN lv_tasks : lv_tasks[i].state = "collected"
    /\ lv_response' = [k \in DOMAIN lv_results |-> SortByIdx(lv_results)[k][2]]
    /\ lv_pc' = "returned"
    /\ UNCHANGED <<lv_rows, lv_tasks, lv_results, appVars, gmVars, rfVars, siVars,
                   psVars, cpVars, efVars, bgVars, dcVars>>

-----------------------------------------------------------------------------
(* SpecApi: the request handlers beside one ingestion thread, from the      *)
(* catalog a finished run of thread r2 left behind: video v2 of user u2,    *)
(* ready, with two segments.                                                *)

ReadySegment(timestamp_ms) ==
    SegmentRow(<<"r2", timestamp_ms>>, "v2", timestamp_ms, timestamp_ms,
               SegmentFrameUrl(FramePath("u2", "v2", timestamp_ms)),
               FrameEmbedding(timestamp_ms), "vision",
               Some([text |-> FrameCaption(timestamp_ms)]))

ReadyCatalog ==
    /\ videos = {VideoRow("v2", "u2", <<"local:", <<"video.mp4">>>>, Metadata, "ready",
                          None, Some(StoredRef(BUCKET_FRAMES, ThumbnailPath("u2", "v2"))))}
    /\ segments = {ReadySegment(0), ReadySegment(1000)}
    /\ blobs = {<<BUCKET_FRAMES, ThumbnailPath("u2", "v2")>>,
                <<BUCKET_FRAMES, FramePath("u2", "v2", 0)>>,
                <<BUCKET_FRAMES, FramePath("u2", "v2", 1000)>>}
    /\ run = [r \in Runs |->
                IF r = "r2"
                THEN [IdleRun EXCEPT !.pc = "returned", !.video_id = "v2",
                                     !.user_id = "u2", !.frames_extracted = 2,
                                     !.segments_inserted = 2]
                ELSE IdleRun]

InitApi ==
    ReadyCatalog /\ http = None /\ GmIdle /\ RfIdle /\ SiIdle /\ PsIdle /\ CpIdle /\ EfIdle /\ BgIdle /\ LvIdle /\ DcIdle

NextApi == IngestStep("r1") \/ SearchVideos \/ DeleteVideo \/ Respond

SpecApi == InitApi /\ [][NextApi]_vars

-----------------------------------------------------------------------------
(* SpecAccess: get_video_details and delete_video beside one ingestion      *)
(* thread, from the catalog of SpecApi.                                     *)

InitAccess == InitApi

NextAccess == IngestStep("r1") \/ GetVideoDetails \/ DeleteVideo \/ Respond

SpecAccess == InitAccess /\ [][NextAccess]_vars

-----------------------------------------------------------------------------
(* SpecReingest: one ingestion thread, from the catalog a failed run of     *)
(* thread r2 left behind: video v1 of user u1 in error, the upload of its   *)
(* second frame having failed after the first segment was inserted.         *)

ErrorCatalog ==
    /\ videos = {VideoRow("v1", "u1", <<"local:", <<"video.mp4">>>>, Metadata, "error",
                          Some(StorageError),
                          Some(StoredRef(BUCKET_FRAMES, ThumbnailPath("u1", "v1"))))}
    /\ segments = {SegmentRow(<<"r2", 0>>, "v1", 0, 0,
                              SegmentFrameUrl(FramePath("u1", "v1", 0)),
                              FrameEmbedding(0), "vision",
                              Some([text |-> FrameCaption(0)]))}
    /\ blobs = {<<BUCKET_FRAMES, ThumbnailPath("u1", "v1")>>,
                <<BUCKET_FRAMES, FramePath("u1", "v1", 0)>>}
    /\ run = [r \in Runs |->
                IF r = "r2"
                THEN [IdleRun EXCEPT !.pc = "raised", !.video_id = "v1",
                                     !.user_id = "u1", !.exc = Some(StorageError),
                                     !.status_updated = TRUE]
                ELSE IdleRun]

InitReingest ==
    ErrorCatalog /\ http = None /\ GmIdle /\ RfIdle /\ SiIdle /\ PsIdle /\ CpIdle /\ EfIdle /\ BgIdle /\ LvIdle /\ DcIdle

NextReingest == IngestStep("r1")

SpecReingest == InitReingest /\ [][NextReingest]_vars

-----------------------------------------------------------------------------
(* Inputs of group_into_moments in SpecMoments.                            *)

GmVideoIds == {"vidA", "vidB"}
GmTimestamps == {0, 1500, 3500, 5000}
GmScores == {50000, 90000, 95000}

\* A row of the ANN query: (segment_id, video_id, t_start_ms, frame_url, score,
\* caption); the segment id of the i-th row is i.
GmRow(i, v, t, s) ==
    [segment_id |-> i, video_id |-> v, timestamp_ms |-> t,
     frame_url |-> StoredRef(BUCKET_FRAMES, <<"f">>), score |-> s, caption |-> None]

\* Every timestamp and score on vidA, one row shape on vidB.
GmShapes == ({"vidA"} \X GmTimestamps \X GmScores) \cup {<<"vidB", 1500, 90000>>}

\* The row list built from n row shapes.
GmInput(n, f) == [i \in 1..n |-> GmRow(i, f[i][1], f[i][2], f[i][3])]

InitMoments ==
    /\ AppInit
    /\ RfIdle
    /\ SiIdle
    /\ PsIdle
    /\ CpIdle
    /\ EfIdle
    /\ BgIdle /\ LvIdle /\ DcIdle
    /\ gm_pc = "call"
    /\ \E n \in 0..MaxLen : \E f \in [1..n -> GmShapes] : gm_segments = GmInput(n, f)
    /\ gm_i = 0
    /\ gm_current = None
    /\ gm_moments = <<>>
    /\ gm_result = <<>>

NextMoments == GmEntry \/ GmIterate \/ GmExit

SpecMoments == InitMoments /\ [][NextMoments]_vars

-----------------------------------------------------------------------------
(* SpecFilter: one call of filter_results_by_semantic_similarity on a list  *)
(* of up to MaxResults results.                                             *)

\* threshold: 0.0 to 1.0, 0.7 by default (lines 162 and 172).
RfThresholds == {0, 70000}

\* The captions a stored segment may carry: none, an object without a text,
\* an empty text, a text.
RfCaptions == {None, Some([model |-> "blip"]), Some([text |-> ""]),
               Some([text |-> "caption"])}

\* The i-th result of the list, with segment id i.
RfRow(i, caption) ==
    [segment_id |-> i, video_id |-> "vidA", timestamp_ms |-> i * 1000,
     frame_url |-> StoredRef(BUCKET_FRAMES, <<"f">>), score |-> 90000,
     caption |-> caption]

InitFilter ==
    /\ AppInit
    /\ GmIdle
    /\ SiIdle
    /\ PsIdle
    /\ CpIdle
    /\ EfIdle
    /\ BgIdle /\ LvIdle /\ DcIdle
    /\ rf_pc = "call"
    /\ \E n \in 0..MaxResults : \E f \in [1..n -> RfCaptions] :
          rf_results = [i \in 1..n |-> RfRow(i, f[i])]
    /\ rf_threshold \in RfThresholds
    /\ rf_tasks = <<>>
    /\ rf_processed = <<>>
    /\ rf_filtered = <<>>

NextFilter ==
    \/ RfEntry
    \/ \E i \in DOMAIN rf_tasks : RfStart(i) \/ RfTask(i) \/ RfCollect(i)
    \/ RfExit

SpecFilter == InitFilter /\ [][NextFilter]_vars

-----------------------------------------------------------------------------
(* SpecFanOut: the same function at the default threshold, on results with  *)
(* and without a caption, with the scheduling the executor gives: its       *)
(* threads keep running and the calling thread keeps collecting, so a step  *)
(* that can be taken is taken.                                              *)

InitFanOut ==
    /\ AppInit
    /\ GmIdle
    /\ SiIdle
    /\ PsIdle
    /\ CpIdle
    /\ EfIdle
    /\ BgIdle /\ LvIdle /\ DcIdle
    /\ rf_pc = "call"
    /\ \E n \in 0..MaxResults : \E f \in [1..n -> {None, Some([text |-> "caption"])}] :
          rf_results = [i \in 1..n |-> RfRow(i, f[i])]
    /\ rf_threshold = 70000
    /\ rf_tasks = <<>>
    /\ rf_processed = <<>>
    /\ rf_filtered = <<>>

SpecFanOut == InitFanOut /\ [][NextFilter]_vars /\ WF_vars(NextFilter)

-----------------------------------------------------------------------------
(* SpecList: list_videos on the rows its query fetched, up to MaxVideos of  *)
(* them, newest first.                                                      *)

LvIds == <<"va", "vb", "vc", "vd">>

\* The i-th row of n: with or without a thumbnail reference, uploaded through
\* the API or ingested from a local path, created after the rows behind it
\* or, with ties, together with its neighbour.
LvRow(i, n, thumbnail, uploaded, ties) ==
    [id |-> LvIds[i], user_id |-> "u1",
     url |-> IF uploaded THEN StoredRef(BUCKET_VIDEOS, OriginalPath("u1", LvIds[i]))
             ELSE <<"local:", <<"video.mp4">>>>,
     duration_ms |-> Metadata.duration_ms, status |-> "ready",
     created_at |-> IF ties THEN (n - i) \div 2 ELSE n - i,
     thumbnail_url |-> IF thumbnail
                       THEN Some(StoredRef(BUCKET_FRAMES, ThumbnailPath("u1", LvIds[i])))
                       ELSE None]

InitList ==
    /\ AppInit
    /\ GmIdle
    /\ RfIdle
    /\ SiIdle
    /\ PsIdle
    /\ CpIdle
    /\ EfIdle
    /\ BgIdle
    /\ DcIdle
    /\ lv_pc = "call"
    /\ \E n \in 0..MaxVideos : \E f \in [1..n -> BOOLEAN], uploaded, ties \in BOOLEAN :
          lv_rows = [i \in 1..n |-> LvRow(i, n, f[i], uploaded, ties)]
    /\ lv_tasks = <<>>
    /\ lv_results = <<>>
    /\ lv_response = <<>>

NextList ==
    \/ LvEntry
    \/ \E i \in DOMAIN lv_tasks : LvTask(i) \/ LvCollect(i)
    \/ LvExit

SpecList == InitList /\ [][NextList]_vars

-----------------------------------------------------------------------------
(* SpecSingleton: the threads of SiThreads call get_model, the first calls  *)
(* concurrently.                                                            *)

InitSingleton == AppInit /\ GmIdle /\ RfIdle /\ SiIdle /\ PsIdle /\ CpIdle /\ EfIdle /\ BgIdle /\ LvIdle /\ DcIdle

NextSingleton ==
    \E t \in SiThreads :
        SiCall(t) \/ SiCheck(t) \/ SiConstruct(t) \/ SiAssign(t) \/ SiReturn(t)

SpecSingleton == InitSingleton /\ [][NextSingleton]_vars

-----------------------------------------------------------------------------
(* SpecPoolStats: get_pool_stats applied to every pool reading up to the    *)
(* bounds.                                                                  *)

InitPoolStats ==
    /\ AppInit
    /\ GmIdle
    /\ RfIdle
    /\ SiIdle
    /\ CpIdle
    /\ EfIdle
    /\ BgIdle /\ LvIdle /\ DcIdle
    /\ ps_pc = "call"
    /\ ps_size \in 0..MaxPoolSize
    /\ ps_available \in 0..ps_size
    /\ ps_waiting \in 0..MaxWaiting
    /\ ps_response = None

NextPoolStats == GetPoolStats

SpecPoolStats == InitPoolStats /\ [][NextPoolStats]_vars

-----------------------------------------------------------------------------
(* SpecPool: the handler threads share the pool.                            *)

InitPool == AppInit /\ GmIdle /\ RfIdle /\ SiIdle /\ PsIdle /\ CpIdle /\ EfIdle /\ BgIdle /\ LvIdle /\ DcIdle

NextPool ==
    \E h \in HdThreads :
        HdEnter(h) \/ HdGranted(h) \/ HdTimeout(h) \/ HdExecute(h) \/ HdLeave(h)

SpecPool == InitPool /\ [][NextPool]_vars

-----------------------------------------------------------------------------
(* SpecConnections: the handler threads share the pool while an ingestion   *)
(* thread makes its catalog calls.                                          *)

InitConnections == InitPool

NextConnections ==
    \/ \E h \in HdThreads :
          HdEnter(h) \/ HdGranted(h) \/ HdTimeout(h) \/ HdExecute(h) \/ HdLeave(h)
    \/ DcConnect("r1")
    \/ DcClose("r1")

SpecConnections == InitConnections /\ [][NextConnections]_vars

-----------------------------------------------------------------------------
(* SpecFrames: one call of extract_frames on a decoder output of up to      *)
(* MaxFrames frames that ends at a frame boundary or inside a frame.        *)

\* fps: 1.0 by default, and a lower and two higher rates.
EfRates == {<<1, 1>>, <<1, 2>>, <<2, 1>>, <<3, 1>>}

\* start_time: not given, or 0.0, 0.5 or 1.5 seconds.
EfStartTimes == {None, Some(0), Some(500), Some(1500)}

\* What is left of the last frame: nothing, one byte, all but one byte.
EfRemainders == {0, 1, FrameSize - 1}

InitFrames ==
    /\ AppInit
    /\ GmIdle
    /\ RfIdle
    /\ SiIdle
    /\ PsIdle
    /\ CpIdle
    /\ BgIdle /\ LvIdle /\ DcIdle
    /\ ef_pc = "call"
    /\ ef_fps \in EfRates
    /\ ef_start_time \in EfStartTimes
    /\ \E n \in 0..MaxFrames : \E rem \in EfRemainders : ef_stdout = n * FrameSize + rem
    /\ ef_pos = 0
    /\ ef_frame_idx = 0
    /\ ef_yielded = <<>>

NextFrames == EfEntry \/ EfRead

SpecFrames == InitFrames /\ [][NextFrames]_vars

-----------------------------------------------------------------------------
(* SpecUpload: the background thread of one upload, running run_ingestion  *)
(* on a fresh video id.                                                     *)

InitUpload == Init

NextUpload == BgStart("r1") \/ IngestBody("r1") \/ BgExcept("r1") \/ BgFinally("r1")

SpecUpload == InitUpload /\ [][NextUpload]_vars

-----------------------------------------------------------------------------
(* Claims about the ingestion pipeline, checked under Spec.                *)

\* The step is the step-3 upsert of an ingest run for video_id.
IsStep3Upsert(video_id) ==
    \E r \in Runs : /\ run[r].pc = "insert_video"
                    /\ run'[r].pc = "load_models"
                    /\ run[r].video_id = video_id

\* C1: the status of a stored Video changes only from processing to ready or
\* to error, and a record that is ready or error changes status only by the
\* step-3 upsert of an ingest run, which sets it to processing; no step moves
\* a record from ready to error or from error to ready.
C1_StatusTransitions ==
    [][\A v \in videos : \A w \in videos' :
          (w.id = v.id /\ w.status # v.status) =>
              \/ v.status = "processing" /\ w.status \in {"ready", "error"}
              \/ /\ v.status \in {"ready", "error"}
                 /\ w.status = "processing"
                 /\ IsStep3Upsert(v.id)]_vars

\* C2: an ingest run that aborts with an exception, at whichever step, leaves
\* the Video record of its video_id with status error and error_msg equal to
\* the exception message, whenever the status update itself succeeds.
C2_AbortLeavesErrorRecord ==
    [][\A r \in Runs :
          (run[r].pc = "except" /\ run'[r].pc = "raised" /\ run'[r].status_updated) =>
              \E v \in videos' : /\ v.id = run[r].video_id
                                 /\ v.status = "error"
                                 /\ v.error_msg = run[r].exc]_vars

\* The blob a stored reference names.
BlobOf(ref) == <<Head(ref), Tail(ref)>>

\* C3: in every reachable state every Segment row's frame reference names a
\* blob that has been uploaded: a failure between the upload and the insert
\* leaves at most a blob without a segment.
C3_SegmentFramesUploaded ==
    \A s \in segments : BlobOf(s.frame_url) \in blobs

\* A run whose segment insert raised after the upload of the frame: the frame
\* is a blob no segment names, beside a segment inserted earlier.
C3_Witness ==
    \E r \in Runs :
        /\ run[r].pc = "raised"
        /\ run[r].exc = Some(CatalogError)
        /\ \E t \in {FrameTimestamp(k) : k \in 0..MaxFrames} :
              /\ <<BUCKET_FRAMES, FramePath(run[r].user_id, run[r].video_id, t)>> \in blobs
              /\ \A s \in segments :
                    s.frame_url # SegmentFrameUrl(FramePath(run[r].user_id, run[r].video_id, t))
        /\ \E s \in segments : s.id[1] = r

-----------------------------------------------------------------------------
(* The claim about re-ingestion, checked under SpecReingest, where thread   *)
(* r1 runs after the failed run on v1 and no row is deleted.                *)

RowsOf(video_id) == {v \in videos : v.id = video_id}

AtMostOneRowPerId == \A id \in VideoIds : Cardinality(RowsOf(id)) <= 1

\* C4 as claimed: a run on the video_id of a run that ended in error sets the
\* record to processing and later to ready or error, so once the later run
\* has ended the record is ready or error; and at no point is there more than
\* one record of the id.
C4_ReingestEndsReadyOrError ==
    /\ AtMostOneRowPerId
    /\ (run["r1"].pc \in Terminal /\ run["r1"].video_id = "v1") =>
           \A v \in RowsOf("v1") : v.status \in {"ready", "error"}

\* The positions of ingest_video between the step-3 upsert and the final
\* status update.
AfterStep3 ==
    {"load_models", "next_frame", "upload_thumbnail", "upsert_thumbnail",
     "encode_batch", "upload_frame", "insert_segment", "finalize"}

\* C4, amended: there is never more than one record of the id; a later run on
\* the id that has passed the step-3 upsert has set the existing record to
\* processing; when that run returns the record is ready; when it raises and
\* the handler's status update succeeded the record is error with the run's
\* message; when that update failed the record is left as it was, processing
\* or (a failure before step 3) error.
C4_ReingestThroughProcessing ==
    /\ AtMostOneRowPerId
    /\ run["r1"].video_id = "v1" =>
         /\ RowsOf("v1") # {}
         /\ \A v \in RowsOf("v1") :
              /\ run["r1"].pc \in AfterStep3 =>
                     v.status = "processing" /\ v.error_msg = None
              /\ run["r1"].pc = "returned" => v.status = "ready"
              /\ (run["r1"].pc = "raised" /\ run["r1"].status_updated) =>
                     v.status = "error" /\ v.error_msg = run["r1"].exc
              /\ (run["r1"].pc = "raised" /\ ~run["r1"].status_updated) =>
                     v.status \in {"processing", "error"}

\* The later run on v1 has returned: the record that was error is ready.
C4_Witness ==
    /\ run["r1"].pc = "returned"
    /\ run["r1"].video_id = "v1"
    /\ run["r1"].segments_inserted > 0
    /\ \E v \in videos : v.id = "v1" /\ v.status = "ready"

-----------------------------------------------------------------------------
(* Claims about search, checked under SpecApi.                             *)

SearchDone == http # None /\ http[1].handler = "search"

VideoOf(video_id) == CHOOSE v \in videos : v.id = video_id

\* The video id a SearchResult carries is str(video_id), the segment id
\* str(segment_id): the same values.
ResultsOf(x) == IF x.status = 200 THEN x.body[1].results ELSE <<>>

\* C5: every row and every result of a search belongs to a video whose status
\* is ready when the query runs, and to the requested video when the search
\* names one, whatever ingestion is in progress.
C5_ResultsOfReadyVideos ==
    SearchDone =>
        LET x == http[1]
            ids == {x.rows[i].video_id : i \in DOMAIN x.rows}
                       \cup {ResultsOf(x)[i].video_id : i \in DOMAIN ResultsOf(x)}
        IN  \A id \in ids :
                /\ HasVideo(videos, id)
                /\ VideoOf(id).status = "ready"
                /\ x.request.video_id # None => id = x.request.video_id[1]

\* A search answered with results while the ingestion thread is inserting
\* segments of another video of the requesting user, which is processing.
C5_Witness ==
    /\ SearchDone
    /\ http[1].status = 200
    /\ Len(http[1].body[1].results) > 0
    /\ run["r1"].pc \in {"upload_frame", "insert_segment", "next_frame"}
    /\ run["r1"].user_id = http[1].request.user_id
    /\ \E v \in videos : /\ v.id = run["r1"].video_id
                         /\ v.status = "processing"
                         /\ v.user_id = http[1].request.user_id
                         /\ \E s \in segments : s.video_id = v.id

\* The catalog as far as it belongs to user_id.
OwnVideos(user_id) == {v \in videos : v.user_id = user_id}
OwnSegments(user_id) ==
    {s \in segments : \E v \in OwnVideos(user_id) : v.id = s.video_id}

\* C6: what a search may return is what it may return on the catalog with
\* every other owner's videos and segments removed, so two catalogs that agree
\* on the requesting owner's records give the same results; and no row or
\* result belongs to a video of another owner, also when the search names
\* another owner's video.
C6_OwnerIsolation ==
    SearchDone =>
        LET x == http[1]
            req == x.request
            ids == {x.rows[i].video_id : i \in DOMAIN x.rows}
                       \cup {ResultsOf(x)[i].video_id : i \in DOMAIN ResultsOf(x)}
        IN  /\ AnnQuery(videos, segments, req.query, req.user_id, req.video_id, req.top_k)
                 = AnnQuery(OwnVideos(req.user_id), OwnSegments(req.user_id),
                            req.query, req.user_id, req.video_id, req.top_k)
            /\ \A id \in ids : HasVideo(videos, id) /\ VideoOf(id).user_id = req.user_id

\* A search of u1 answered with results of u1's own video while u2's ready
\* video holds segments that score as high.
C6_Witness ==
    /\ SearchDone
    /\ http[1].request.user_id = "u1"
    /\ http[1].request.video_id = None
    /\ http[1].status = 200
    /\ Len(http[1].body[1].results) > 0
    /\ \E v \in videos : /\ v.user_id = "u2"
                         /\ v.status = "ready"
                         /\ \E s \in segments : s.video_id = v.id

\* C7: when signing the preview of one representative fails, the search
\* still succeeds: the response holds every representative, in order, the one
\* whose signing failed with a null preview and the others unchanged.
C7_SignFailureDegradesItem ==
    (SearchDone /\ http[1].logged # {}) =>
        LET x == http[1]
            shown == SubSeq(x.moments, 1, Min(x.request.top_k, Len(x.moments)))
        IN  /\ x.status = 200
            /\ Len(x.body[1].results) = Len(shown)
            /\ \A i \in DOMAIN shown :
                  LET res == x.body[1].results[i]
                  IN  /\ res.segment_id = shown[i].segment_id
                      /\ res.video_id = shown[i].video_id
                      /\ res.timestamp_ms = shown[i].timestamp_ms
                      /\ res.preview_url =
                            IF shown[i].frame_url \in x.logged THEN None
                            ELSE Some(get_signed_url(BUCKET_FRAMES,
                                                     PreviewPath(shown[i].frame_url)))

-----------------------------------------------------------------------------
(* Claims about group_into_moments, checked under SpecMoments.             *)

\* The clusters of a row list: a row joins the open cluster iff it has the
\* cluster's video and its timestamp minus that of the row admitted last is at
\* most the threshold; otherwise it opens a new cluster.
RECURSIVE RefClusters(_, _)
RefClusters(segs, thr) ==
    IF segs = <<>> THEN <<>>
    ELSE LET prev == RefClusters(SubSeq(segs, 1, Len(segs) - 1), thr)
             row == segs[Len(segs)]
         IN  IF prev = <<>> THEN <<<<row>>>>
             ELSE LET cur == prev[Len(prev)]
                      last == cur[Len(cur)]
                  IN  IF /\ row.video_id = cur[1].video_id
                         /\ row.timestamp_ms - last.timestamp_ms <= thr
                      THEN [prev EXCEPT ![Len(prev)] = Append(cur, row)]
                      ELSE Append(prev, <<row>>)

\* The member with the highest score, the first of them in input order.
RefRepresentative(cluster) ==
    cluster[CHOOSE i \in DOMAIN cluster :
                \A j \in DOMAIN cluster :
                    /\ cluster[j].score <= cluster[i].score
                    /\ j < i => cluster[j].score < cluster[i].score]

\* C8: within each cluster formed by group_into_moments the emitted moment is
\* the member with the highest score, and among members with the same highest
\* score the one that comes first in the input.
C8_RepresentativeIsFirstMax ==
    gm_pc = "returned" =>
        LET clusters == RefClusters(gm_segments, TimeThresholdMs)
        IN  /\ Len(gm_result) = Len(clusters)
            /\ \A k \in DOMAIN clusters : gm_result[k] = RefRepresentative(clusters[k])

\* A returned call with a cluster whose highest score is held by two members,
\* and one whose representative is not its first row.
C8_Witness ==
    /\ gm_pc = "returned"
    /\ LET clusters == RefClusters(gm_segments, TimeThresholdMs)
       IN  /\ \E k \in DOMAIN clusters :
                \E i, j \in DOMAIN clusters[k] :
                    /\ i < j
                    /\ clusters[k][i].score = clusters[k][j].score
                    /\ gm_result[k] = clusters[k][i]
           /\ \E k \in DOMAIN clusters : gm_result[k] # clusters[k][1]

\* The single forward pass of the claim: the open cluster is (video_id, end_ms,
\* rep), out holds the representatives emitted so far.
RECURSIVE RefPass(_, _, _, _)
RefPass(segs, i, c, thr) ==
    IF i > Len(segs) THEN Append(c.out, c.rep)
    ELSE LET row == segs[i]
         IN  IF row.video_id = c.video_id /\ row.timestamp_ms - c.end_ms <= thr
             THEN RefPass(segs, i + 1,
                          [c EXCEPT !.end_ms = row.timestamp_ms,
                                    !.rep = IF row.score > c.rep.score THEN row ELSE @],
                          thr)
             ELSE RefPass(segs, i + 1,
                          [video_id |-> row.video_id, end_ms |-> row.timestamp_ms,
                           rep |-> row, out |-> Append(c.out, c.rep)],
                          thr)

RefForwardPass(segs, thr) ==
    IF segs = <<>> THEN <<>>
    ELSE RefPass(segs, 2,
                 [video_id |-> segs[1].video_id, end_ms |-> segs[1].timestamp_ms,
                  rep |-> segs[1], out |-> <<>>],
                 thr)

\* [(vidA,0,0.9), (vidA,1500,0.5), (vidA,5000,0.95)]
C9_Example ==
    <<GmRow(1, "vidA", 0, 90000), GmRow(2, "vidA", 1500, 50000),
      GmRow(3, "vidA", 5000, 95000)>>

\* C9: group_into_moments returns what the single forward pass returns, for
\* every input list; on the example it returns the rows at t=0 and t=5000, in
\* that order.
C9_EqualsForwardPass ==
    gm_pc = "returned" =>
        /\ gm_result = RefForwardPass(gm_segments, TimeThresholdMs)
        /\ gm_segments = C9_Example => gm_result = <<C9_Example[1], C9_Example[3]>>

\* The call on the example has returned.
C9_Witness ==
    /\ gm_pc = "returned"
    /\ gm_segments = C9_Example
    /\ Len(gm_result) = 2

\* The loop iteration at gm_i admits its row to the open cluster.
GmAdmits ==
    /\ gm_pc = "loop"
    /\ gm_i <= Len(gm_segments)
    /\ gm_current # None
    /\ gm_i' = gm_i + 1
    /\ gm_moments' = gm_moments

\* C10: every row admitted to a cluster is from the cluster's video and its
\* timestamp is within the threshold of the timestamp of the row admitted just
\* before it, whichever of the two is the earlier one.
C10_AdmittedWithinThreshold ==
    [][GmAdmits =>
          LET row == gm_segments[gm_i]
              before == gm_segments[gm_i - 1]
          IN  /\ row.video_id = before.video_id
              /\ Abs(row.timestamp_ms - before.timestamp_ms) <= TimeThresholdMs]_vars

\* The scores of a list of rows or results.
ScoresOf(rows) == [i \in DOMAIN rows |-> rows[i].score]

NonIncreasing(xs) == \A i, j \in DOMAIN xs : i < j => xs[i] >= xs[j]

\* The results search_videos builds from the moments when every preview is
\* signed (search.py:149-176).
ResponseOf(moments, top_k) ==
    LET shown == SubSeq(moments, 1, Min(top_k, Len(moments)))
    IN  BuildResults(shown, [i \in DOMAIN shown |-> TRUE], 1,
                     [results |-> <<>>, logged |-> {}, raised |-> FALSE]).results

\* C11: for input rows in non-increasing score order, the list
\* group_into_moments returns is in non-increasing score order, the
\* representative of every cluster is the cluster's first row, and the
\* results of the search response built from it are in non-increasing score
\* order.
C11_SortedInputSortedOutput ==
    (gm_pc = "returned" /\ NonIncreasing(ScoresOf(gm_segments))) =>
        LET clusters == RefClusters(gm_segments, TimeThresholdMs)
        IN  /\ NonIncreasing(ScoresOf(gm_result))
            /\ Len(gm_result) = Len(clusters)
            /\ \A k \in DOMAIN clusters : gm_result[k] = clusters[k][1]
            /\ \A top_k \in TopKs :
                  LET results == ResponseOf(gm_result, top_k)
                  IN  /\ NonIncreasing(ScoresOf(results))
                      /\ \A k \in DOMAIN results :
                            results[k].segment_id = clusters[k][1].segment_id

\* A returned call on rows in non-increasing order with two clusters, the
\* first of them holding two rows of the same score and a third of a lower one.
C11_Witness ==
    /\ gm_pc = "returned"
    /\ NonIncreasing(ScoresOf(gm_segments))
    /\ LET clusters == RefClusters(gm_segments, TimeThresholdMs)
       IN  /\ Len(clusters) >= 2
           /\ Len(gm_result) = Len(clusters)
           /\ \E k \in DOMAIN clusters :
                 /\ Len(clusters[k]) >= 2
                 /\ clusters[k][1].score = clusters[k][2].score
           /\ gm_result[1].score > gm_result[Len(gm_result)].score

-----------------------------------------------------------------------------
(* More claims about search, checked under SpecApi.                        *)

\* The k-th smallest member of a set of indexes.
KthOf(idx, k) == CHOOSE i \in idx : Cardinality({j \in idx : j < i}) = k - 1

\* C12: score filtering keeps exactly the rows with score >= min_score: a
\* row whose score equals min_score is kept, a row with a smaller score is
\* dropped, and the kept rows stay in the order they had.
C12_FilterKeepsAtLeastMinScore ==
    SearchDone =>
        LET x == http[1]
            kept == {i \in DOMAIN x.rows : x.rows[i].score >= x.request.min_score}
        IN  /\ Len(x.filtered_rows) = Cardinality(kept)
            /\ \A k \in DOMAIN x.filtered_rows :
                  x.filtered_rows[k] = x.rows[KthOf(kept, k)]

\* A search whose query returned a row scoring exactly min_score, which was
\* kept, and after it a row scoring less, which was dropped.
C12_Witness ==
    /\ SearchDone
    /\ LET x == http[1]
       IN  /\ Len(x.rows) = 2
           /\ x.rows[1].score = x.request.min_score
           /\ x.rows[2].score < x.request.min_score
           /\ x.filtered_rows = <<x.rows[1]>>

\* C13: a search whose query text is empty or only whitespace is rejected
\* with the validation error (400) before any pipeline work: the embedding
\* provider is not called, no connection is acquired, no signed URL is
\* requested and nothing is read.
C13_BlankQueryRejectedFirst ==
    (SearchDone /\ http[1].request.query \in {EmptyQuery, BlankQuery}) =>
        /\ http[1].status = 400
        /\ http[1].calls = <<>>
        /\ http[1].rows = <<>>
        /\ http[1].logged = {}

\* A whitespace-only search of the owner of a ready video with segments has
\* been rejected.
C13_Witness ==
    /\ SearchDone
    /\ http[1].request.query = BlankQuery
    /\ http[1].status = 400
    /\ \E v \in videos : /\ v.user_id = http[1].request.user_id
                         /\ v.status = "ready"
                         /\ \E s \in segments : s.video_id = v.id

\* C14: a search whose query encoding fails ends in a server-side failure and
\* never in a successful response; a search whose query ran and whose rows
\* were all dropped by the filter, or that found no row, ends in a successful
\* response with results = [] and count = 0.
C14_EncodeFailureIsNotNoResults ==
    SearchDone =>
        LET x == http[1]
        IN  /\ (x.calls # <<>> /\ x.calls[1] = Call("encode_text", TRUE)) =>
                  x.status >= 500
            /\ (/\ Len(x.calls) >= 2
                /\ x.calls[2] = Call("get_connection", FALSE)
                /\ x.filtered_rows = <<>>) =>
                  /\ x.status = 200
                  /\ x.body = Some([results |-> <<>>, query |-> x.request.query,
                                    count |-> 0])
                  /\ x.calls = <<Call("encode_text", FALSE), Call("get_connection", FALSE)>>

\* A search whose query returned rows, all of them below min_score, has been
\* answered with no results.
C14_Witness ==
    /\ SearchDone
    /\ Len(http[1].rows) > 0
    /\ http[1].filtered_rows = <<>>
    /\ http[1].status = 200
    /\ http[1].body[1].count = 0

-----------------------------------------------------------------------------
(* Claims about re-ranking, checked under SpecFilter.                      *)

\* C15: filter_results_by_semantic_similarity over N results returns a
\* subsequence of its input: at most N results, each of them an input
\* result, in the order they have in the input, in whatever order the worker
\* tasks complete.
C15_FilteredIsSubsequence ==
    rf_pc = "returned" =>
        /\ Len(rf_filtered) <= Len(rf_results)
        /\ \A k \in DOMAIN rf_filtered :
              /\ rf_filtered[k].segment_id \in DOMAIN rf_results
              /\ rf_filtered[k] = rf_results[rf_filtered[k].segment_id]
        /\ \A k, l \in DOMAIN rf_filtered :
              k < l => rf_filtered[k].segment_id < rf_filtered[l].segment_id

\* A returned call of three tasks that completed in another order than they
\* were submitted in, two of its results having passed.
C15_Witness ==
    /\ rf_pc = "returned"
    /\ Len(rf_results) = 3
    /\ Len(rf_filtered) = 2
    /\ rf_processed[1].index = 3
    /\ rf_processed[1].passed
    /\ rf_processed[3].passed

\* C16: when the oracle call fails for one item, that item is absent from the
\* output, for every threshold, while every other item passes or fails as its
\* own oracle reply decides, and the call returns.
C16_OracleFailureIsNonMatch ==
    rf_pc = "returned" =>
        \A i \in DOMAIN rf_tasks :
            LET row == rf_results[i]
                present == \E k \in DOMAIN rf_filtered : rf_filtered[k] = row
            IN  IF rf_tasks[i].oracle = Some(OracleRaised)
                THEN ~present
                ELSE present <=>
                        /\ rf_tasks[i].oracle # None
                        /\ calculate_text_similarity(rf_tasks[i].oracle[1]) >= rf_threshold

-----------------------------------------------------------------------------
(* The claim about the lazy singletons, checked under SpecSingleton.       *)

\* C17: a lazily initialized singleton is constructed at most once per
\* process, also when several threads make their first call concurrently, and
\* all callers receive the same instance.
C17_SingleInitialization ==
    /\ Cardinality(si_built) <= 1
    /\ \A t, u \in SiThreads :
          (si_thread[t].pc = "returned" /\ si_thread[u].pc = "returned") =>
              si_thread[t].got = si_thread[u].got

-----------------------------------------------------------------------------
(* Claims about the Video record, checked under Spec and SpecReingest.     *)

C19_ErrorMsgIffError ==
    \A v \in videos : (v.error_msg # None) <=> (v.status = "error")

\* A record that a failed run had set to error, with its message, is
\* processing again, without a message, in a later run on the same id.
C19_Witness ==
    \E r1, r2 \in Runs :
        /\ r1 # r2
        /\ run[r1].pc = "raised"
        /\ run[r1].exc = Some(ProviderError)
        /\ run[r1].status_updated
        /\ run[r2].video_id = run[r1].video_id
        /\ run[r2].pc = "next_frame"
        /\ \E v \in videos : /\ v.id = run[r1].video_id
                             /\ v.status = "processing"
                             /\ v.error_msg = None

\* C20: when an ingest run returns successfully for a video_id, the number of
\* Segment rows stored for that video_id equals the segments_inserted value
\* of its result, and the Video record exists with status ready.
C20_SegmentCountMatchesResult ==
    [][\A r \in Runs :
          (run[r].pc = "finalize" /\ run'[r].pc = "returned") =>
              /\ count_segments(segments', run'[r].video_id) = run'[r].segments_inserted
              /\ \E v \in videos' : v.id = run'[r].video_id /\ v.status = "ready"]_vars

-----------------------------------------------------------------------------
(* The claim about the upsert, checked under SpecReingest.                  *)

\* The row insert_video is called with in the step r takes: the step-3 call
\* (ingest_video.py:104-112) or the thumbnail call (lines 151-160).
UpsertArgument(r) ==
    LET c == run[r]
    IN  VideoRow(c.video_id, c.user_id, c.video_url[1], Metadata, "processing", None,
                 IF c.pc = "insert_video" THEN None
                 ELSE Some(StoredRef(BUCKET_FRAMES, ThumbnailPath(c.user_id, c.video_id))))

\* The step is a call of insert_video by r that returned.
IsUpsert(r) ==
    \/ run[r].pc = "insert_video" /\ run'[r].pc = "load_models"
    \/ run[r].pc = "upsert_thumbnail" /\ run'[r].pc \in {"next_frame", "encode_batch"}

\* C21: after insert_video is called for an id that already exists, the
\* stored record's url, duration_ms, width, height, status, error_msg and
\* thumbnail_url equal the arguments of the call; only the id (and the
\* creation timestamp, which is no argument) keeps its old value.
C21_UpsertAppliesMutableFields ==
    [][\A r \in Runs :
          (IsUpsert(r) /\ HasVideo(videos, run[r].video_id)) =>
              \E v \in videos' :
                  /\ v.id = run[r].video_id
                  /\ v.url = UpsertArgument(r).url
                  /\ v.duration_ms = UpsertArgument(r).duration_ms
                  /\ v.width = UpsertArgument(r).width
                  /\ v.height = UpsertArgument(r).height
                  /\ v.status = UpsertArgument(r).status
                  /\ v.error_msg = UpsertArgument(r).error_msg
                  /\ v.thumbnail_url = UpsertArgument(r).thumbnail_url]_vars

-----------------------------------------------------------------------------
(* The claim about the pool status, checked under SpecPoolStats.            *)

\* C22: the status get_pool_stats derives is a total function of (size,
\* available, waiting): critical when available = 0 and waiting = 0, warning
\* when available = 0 and waiting > 0, degraded when 0 < available < 30% of
\* size, healthy in every other case.
C22_PoolStatusCases ==
    ps_pc = "returned" =>
        LET r == ps_response[1]
        IN  /\ r.code = 200
            /\ r.status \in {"critical", "warning", "degraded", "healthy"}
            /\ r.status = "critical" <=> (ps_available = 0 /\ ps_waiting = 0)
            /\ r.status = "warning" <=> (ps_available = 0 /\ ps_waiting > 0)
            /\ r.status = "degraded" <=>
                   (0 < ps_available /\ 100 * ps_available < 30 * ps_size)
            /\ r.status = "healthy" <=>
                   (0 < ps_available /\ 100 * ps_available >= 30 * ps_size)

\* A pool with exactly 30% of its connections available has been reported
\* healthy.
C22_Witness ==
    /\ ps_pc = "returned"
    /\ ps_size = 10
    /\ ps_available = 3
    /\ ps_response[1].status = "healthy"

-----------------------------------------------------------------------------
(* The claim about the pooled connections, checked under SpecPool.          *)

\* C23: a connection a handler acquired is held exactly while the handler is
\* inside its with block and is back in the pool once the handler has left
\* it, by completion, return or exception; when no handler is running no
\* connection is checked out; and never more than max_size are out.
C23_ConnectionsReturned ==
    /\ cp_leased = {h \in HdThreads : cp_thread[h].pc \in {"scoped", "leaving"}}
    /\ (\A h \in HdThreads : cp_thread[h].pc = "idle") => cp_leased = {}
    /\ Cardinality(cp_leased) <= PoolMaxSize

\* Every handler has finished, the last of them by an exception inside its
\* block, and the pool has all its connections.
C23_Witness ==
    /\ \A h \in HdThreads : cp_thread[h].pc = "idle"
    /\ cp_released = Some("raised")
    /\ cp_leased = {}

-----------------------------------------------------------------------------
(* The claim about the frame stream, checked under SpecFrames.              *)

\* C24: the timestamps extract_frames yields are non-decreasing in yield
\* order and the first is >= 0; the frame with index i carries the
\* timestamp int((i / fps + start_time) * 1000); and a short read of the
\* last frame ends the stream without a partial frame being yielded: the
\* frames yielded are the complete frames of the decoder's output.
C24_TimestampsOfCompleteFrames ==
    LET start_ms == IF ef_start_time = None THEN 0 ELSE ef_start_time[1]
        n == Len(ef_yielded)
    IN  /\ \A k \in 1..n :
              \* the integer t with t <= (i / fps) * 1000 + start_ms < t + 1
              /\ ef_yielded[k] * ef_fps[1]
                     <= (k - 1) * ef_fps[2] * 1000 + start_ms * ef_fps[1]
              /\ (k - 1) * ef_fps[2] * 1000 + start_ms * ef_fps[1]
                     < (ef_yielded[k] + 1) * ef_fps[1]
        /\ \A k, l \in 1..n : k < l => ef_yielded[k] <= ef_yielded[l]
        /\ n >= 1 => ef_yielded[1] >= 0
        /\ n * FrameSize <= ef_stdout
        /\ ef_pc = "ended" => n = ef_stdout \div FrameSize

\* A stream of MaxFrames frames at 3 fps from 0.5 s has ended at a frame cut
\* short by one byte.
C24_Witness ==
    /\ ef_pc = "ended"
    /\ ef_fps = <<3, 1>>
    /\ ef_start_time = Some(500)
    /\ Len(ef_yielded) = MaxFrames
    /\ ef_stdout = MaxFrames * FrameSize + (FrameSize - 1)
    /\ ef_yielded[2] = 833

-----------------------------------------------------------------------------
(* The claim about the failure of the status update, checked under          *)
(* SpecUpload.                                                              *)

\* C25: when an ingest run fails and the status update to error fails too,
\* the failure of the update is swallowed and the exception that propagates
\* out of ingest_video is the original one, as it is when the update
\* succeeds; and no exception escapes the thread of run_ingestion: what
\* ingest_video raised is caught, and the thread ends.
C25_OriginalExceptionPropagates ==
    [][\A r \in Runs :
          /\ (run[r].pc = "except" /\ run'[r].pc = "raised") =>
                 /\ run'[r].exc = run[r].exc
                 /\ run'[r].exc # None
          /\ bg_thread'[r].escaped = None
          /\ (bg_thread[r].pc = "running" /\ bg_thread'[r].pc = "finally") =>
                 bg_thread'[r].caught = run[r].exc]_vars

\* A run whose encoding failed and whose status update failed as well has
\* raised the encoding failure, the record is still processing, and the
\* thread has ended with that exception caught.
C25_Witness ==
    \E r \in Runs :
        /\ run[r].pc = "raised"
        /\ ~run[r].status_updated
        /\ run[r].exc = Some(ProviderError)
        /\ \E v \in videos : v.id = run[r].video_id /\ v.status = "processing"
        /\ bg_thread[r].pc = "ended"
        /\ bg_thread[r].caught = Some(ProviderError)

-----------------------------------------------------------------------------
(* Claims about the steps of one ingest run, checked under SpecReingest.    *)

\* The Segment rows run r has inserted.
OwnRows(tbl, r) == {s \in tbl : s.id[1] = r}

\* The reference the thumbnail upsert of run r stores (ingest_video.py:148).
ThumbnailRef(r) ==
    Some(StoredRef(BUCKET_FRAMES, ThumbnailPath(run[r].user_id, run[r].video_id)))

-----------------------------------------------------------------------------
(* Claims about batching, checked under Spec.                               *)

\* The positions inside process_frame_batch.
InBatch == {"encode_batch", "upload_frame", "insert_segment"}

\* C27: the buffer of a run never holds more than batch_size frames; a batch
\* that is processed is never empty, has exactly batch_size frames unless it
\* is the last one, and the last one is the remainder the stream left; the
\* frames are batched in stream order, each in one batch: the buffer holds
\* the frames extracted and not yet processed, in the order they were
\* yielded, and the batches before it were full.
C27_BatchesPartitionTheStream ==
    \A r \in Runs :
        LET c == run[r]
            n == Len(c.frame_buffer)
        IN  /\ n <= BatchSize
            /\ c.pc \in InBatch =>
                  /\ n >= 1
                  /\ ~c.last_batch => n = BatchSize
                  /\ c.last_batch => n < BatchSize
            /\ c.pc \in {"next_frame", "upload_thumbnail", "upsert_thumbnail"} =>
                  n < BatchSize
            /\ c.pc \in AfterStep3 \ {"finalize"} =>
                  /\ c.segments_inserted + n = c.frames_extracted
                  /\ c.segments_inserted % BatchSize = 0
                  /\ \A j \in 1..n :
                        c.frame_buffer[j] = FrameTimestamp(c.segments_inserted + j - 1)
            /\ c.pc \in {"finalize", "returned"} =>
                  c.segments_inserted = c.frames_extracted

\* A run is processing its last batch, a remainder shorter than batch_size,
\* after one full batch.
C27_Witness ==
    \E r \in Runs :
        /\ run[r].pc = "insert_segment"
        /\ run[r].last_batch
        /\ run[r].segments_inserted = BatchSize
        /\ Len(run[r].frame_buffer) >= 1
        /\ run[r].frames_extracted = BatchSize + Len(run[r].frame_buffer)

\* C28: a run writes status ready only after all its batches have completed:
\* at the step that writes ready to the record of its video every frame the
\* run extracted has a committed Segment row, the result's frames_extracted
\* equals its segments_inserted, no step but that one makes a record ready,
\* and the run inserts no segment after it.
C28_ReadyAfterAllBatches ==
    [][/\ \A r \in Runs :
             LET c == run[r]
                 d == run'[r]
             IN  /\ (c.pc = "finalize" /\ d.pc = "returned") =>
                        /\ HasVideo(videos, c.video_id) =>
                              /\ \E v \in videos' : v.id = c.video_id /\ v.status = "ready"
                              /\ \A k \in 0..(c.frames_extracted - 1) :
                                    \E s \in segments' :
                                        /\ s.id = <<r, FrameTimestamp(k)>>
                                        /\ s.video_id = c.video_id
                                        /\ s.t_start_ms = FrameTimestamp(k)
                              /\ Cardinality(OwnRows(segments', r)) = c.frames_extracted
                        /\ d.frames_extracted = d.segments_inserted
                        /\ d.frames_extracted = c.frames_extracted
                 /\ c.pc = "returned" => OwnRows(segments', r) \subseteq OwnRows(segments, r)
       /\ \A v \in videos' :
             (v.status = "ready" /\ v \notin videos) =>
                 \E r \in Runs : /\ run[r].pc = "finalize"
                                 /\ run'[r].pc = "returned"
                                 /\ run[r].video_id = v.id]_vars

\* A run has returned after MaxFrames frames, in a full batch and a
\* remainder, and its record is ready while the other thread is inserting
\* segments.
C28_Witness ==
    \E r, q \in Runs :
        /\ run[r].pc = "returned"
        /\ run[r].frames_extracted = MaxFrames
        /\ run[r].segments_inserted = MaxFrames
        /\ \E v \in videos : v.id = run[r].video_id /\ v.status = "ready"
        /\ q # r
        /\ run[q].pc = "insert_segment"

-----------------------------------------------------------------------------
(* Claims about the rows a run leaves alone, checked under SpecApi and      *)
(* SpecReingest.                                                            *)

\* C29: no step deletes or changes a committed Segment row, unless it
\* deletes the Video record that owns the row: every row of the table is in
\* the table after the step, as it was, or its video had a record before the
\* step and has none after it.  So the rows of a video only grow across
\* failed runs and re-ingestions of its id.
C29_SegmentsOnlyGrow ==
    [][\A s \in segments :
           \/ s \in segments'
           \/ /\ HasVideo(videos, s.video_id)
              /\ ~HasVideo(videos', s.video_id)]_vars

\* A later run of a video id has ended, returned or raised after inserting a
\* segment of its own, and the rows the earlier run committed are all still
\* under the video.
C29_Witness ==
    /\ run["r1"].pc \in {"returned", "raised"}
    /\ run["r1"].video_id = run["r2"].video_id
    /\ \E v \in videos : /\ v.id = run["r1"].video_id
                         /\ v.status \in {"ready", "error"}
    /\ OwnRows(segments, "r1") # {}
    /\ Cardinality(OwnRows(segments, "r2")) = run["r2"].segments_inserted
    /\ \A s \in OwnRows(segments, "r1") \cup OwnRows(segments, "r2") :
           s.video_id = run["r1"].video_id

\* The ids of the Video records.
VideoIdsOf(tbl) == {v.id : v \in tbl}

\* C30: a run whose probe fails aborts before any other step: the failing
\* probe and the handler that follows it upload no blob, create no Video
\* record and insert no Segment, the handler is the only step the run takes
\* after the probe, and the run ends raised with the probe's error and no
\* segment of its own.
C30_ProbeFailureAbortsFirst ==
    [][\A r \in Runs :
           LET c == run[r]
               d == run'[r]
           IN  /\ (c.pc = "probe" /\ d.pc = "except") =>
                      /\ d.exc = Some(ProbeError)
                      /\ UNCHANGED <<videos, segments, blobs>>
               /\ (c.pc = "except" /\ c.exc = Some(ProbeError) /\ d # c) =>
                      /\ d.pc = "raised"
                      /\ d.exc = Some(ProbeError)
                      /\ UNCHANGED <<segments, blobs>>
                      /\ VideoIdsOf(videos') = VideoIdsOf(videos)
               /\ (c.pc = "raised" /\ c.exc = Some(ProbeError)) =>
                      /\ d = c
                      /\ OwnRows(segments, r) = {}]_vars

\* A run has raised the probe's error for a video id that has no record,
\* after its handler ran the status update.
C30_Witness ==
    \E r \in Runs :
        /\ run[r].pc = "raised"
        /\ run[r].exc = Some(ProbeError)
        /\ run[r].status_updated
        /\ ~HasVideo(videos, run[r].video_id)
        /\ OwnRows(segments, r) = {}

-----------------------------------------------------------------------------
(* More claims about group_into_moments, checked under SpecMoments.         *)

\* C31: within one cluster end_ms only advances: whenever a loop iteration
\* admits its row to the open cluster, the cluster's end_ms after the
\* iteration is greater than or equal to its end_ms before it.
C31_EndOnlyAdvances ==
    [][GmAdmits => gm_current'[1].end_ms >= gm_current[1].end_ms]_vars

-----------------------------------------------------------------------------
(* More claims about the handlers, checked under SpecApi.                   *)

\* C32: a search response holds at most top_k results, its count is the
\* number of its results, and the results are the first top_k moments of
\* the clustering of the filtered rows, in the order of the clustering.
C32_FirstTopKMoments ==
    (SearchDone /\ http[1].status = 200) =>
        LET x == http[1]
            results == x.body[1].results
            clustered == group_into_moments(x.filtered_rows, TimeThresholdMs)
        IN  /\ Len(results) <= x.request.top_k
            /\ x.body[1].count = Len(results)
            /\ Len(results) = Min(x.request.top_k, Len(clustered))
            /\ \A k \in DOMAIN results :
                  /\ results[k].segment_id = clustered[k].segment_id
                  /\ results[k].video_id = clustered[k].video_id
                  /\ results[k].timestamp_ms = clustered[k].timestamp_ms

\* A response with top_k = 2 results, two moments of different clusters,
\* from two rows.
C32_Witness ==
    /\ SearchDone
    /\ http[1].status = 200
    /\ http[1].request.top_k = 2
    /\ Len(http[1].body[1].results) = 2
    /\ http[1].body[1].count = 2
    /\ http[1].body[1].results[1].segment_id # http[1].body[1].results[2].segment_id

-----------------------------------------------------------------------------
(* More claims about re-ranking, checked under SpecFilter.                  *)

\* A result without a caption: a null caption, a caption object that has no
\* text, or an empty text.
NoCaption(result) ==
    \/ result.caption = None
    \/ "text" \notin DOMAIN result.caption[1]
    \/ result.caption[1].text = ""

\* C33: a result with no caption is always dropped and the oracle is never
\* invoked for it: the task of such a result has no oracle call when it is
\* done, its processed item is skipped and not passed, and the list the call
\* returns does not hold the result.
C33_NoCaptionDroppedWithoutOracle ==
    \A i \in DOMAIN rf_results :
        NoCaption(rf_results[i]) =>
            /\ (rf_tasks # <<>> /\ rf_tasks[i].state \in {"done", "collected"}) =>
                  /\ rf_tasks[i].oracle = None
                  /\ rf_tasks[i].processed[1].skipped
                  /\ ~rf_tasks[i].processed[1].passed
            /\ (rf_pc = "returned" /\ rf_results # <<>>) =>
                  \A k \in DOMAIN rf_filtered : rf_filtered[k] # rf_results[i]

\* A call has returned on a list with a null caption, a caption without a
\* text, and a captioned result that passed.
C33_Witness ==
    /\ rf_pc = "returned"
    /\ \E i, j, k \in DOMAIN rf_results :
          /\ rf_results[i].caption = None
          /\ rf_results[j].caption # None
          /\ NoCaption(rf_results[j])
          /\ ~NoCaption(rf_results[k])
          /\ rf_filtered = <<rf_results[k]>>

\* The oracle calls in flight: the running tasks of results with a caption.
InFlight ==
    {i \in DOMAIN rf_tasks :
        rf_tasks[i].state = "running" /\ HasCaptionText(rf_results[i].caption)}

\* C34: at every moment at most max_workers tasks are running, so at most
\* max_workers oracle calls are in flight, however many results were
\* submitted; and the call terminates with every submitted item processed.
C34_BoundedFanOutTerminates ==
    /\ [](/\ Cardinality(InFlight) <= MaxWorkers
          /\ Cardinality({i \in DOMAIN rf_tasks : rf_tasks[i].state = "running"})
                <= MaxWorkers)
    /\ <>(/\ rf_pc = "returned"
          /\ Len(rf_processed) = Len(rf_results)
          /\ \A i \in DOMAIN rf_tasks : rf_tasks[i].state = "collected")

\* max_workers oracle calls are in flight while a task submitted after them
\* waits for a thread.
C34_Witness ==
    /\ Cardinality(InFlight) = MaxWorkers
    /\ \E i \in DOMAIN rf_tasks : rf_tasks[i].state = "pending"

-----------------------------------------------------------------------------
(* Claims about list_videos, checked under SpecList.                        *)

\* C35: list_videos returns one entry per row it read, in the order of the
\* rows (creation time descending), whatever order the signing tasks
\* complete in; the entry of a row is the row with the signed URLs of its
\* own references, a URL being null when the reference is missing or its
\* signing failed, so a failure changes that URL of that entry only.
C35_OneEntryPerRowInOrder ==
    lv_pc = "returned" =>
        /\ Len(lv_response) = Len(lv_rows)
        /\ \A k \in DOMAIN lv_response :
              LET e == lv_response[k]
                  row == lv_rows[k]
              IN  /\ e.id = row.id
                  /\ e.user_id = row.user_id
                  /\ e.url = row.url
                  /\ e.status = row.status
                  /\ e.created_at = row.created_at
                  /\ e.thumbnail_url =
                        IF row.thumbnail_url # None /\ lv_tasks[k].thumb_ok
                        THEN Some(<<"signed", BUCKET_FRAMES, ThumbnailPath(row.user_id, row.id)>>)
                        ELSE None
                  /\ e.video_url =
                        IF lv_tasks[k].video_ok
                        THEN Some(<<"signed", Head(row.url), Tail(row.url)>>)
                        ELSE None
        /\ \A j, k \in DOMAIN lv_response :
              j < k => lv_response[j].created_at >= lv_response[k].created_at

\* A call has returned MaxVideos entries after the task of the last row
\* completed first, with one thumbnail that could not be signed between two
\* that could.
C35_Witness ==
    /\ lv_pc = "returned"
    /\ Len(lv_response) = MaxVideos
    /\ lv_results[1][1] = MaxVideos - 1
    /\ \E k \in DOMAIN lv_rows :
          /\ lv_rows[k].thumbnail_url # None
          /\ ~lv_tasks[k].thumb_ok
          /\ lv_response[k].thumbnail_url = None
          /\ lv_response[k].video_url # None
    /\ \E k \in DOMAIN lv_rows : lv_response[k].thumbnail_url # None

-----------------------------------------------------------------------------
(* The claim about all catalog connections, checked under SpecConnections.  *)

\* C36: at every moment the catalog connections the process has open, those
\* the pool has handed out and those a thread opened for a catalog call, are
\* at most the pool's max_size.
C36_OpenConnectionsWithinPool ==
    Cardinality(cp_leased) + Cardinality(dc_open) <= PoolMaxSize

-----------------------------------------------------------------------------
(* The claim about the temp file of an upload, checked under SpecUpload.    *)

\* The temp file of an upload is there for the whole ingestion run and is
\* not removed before the run has ended.
TempFileKeptDuringRun ==
    \A r \in Runs :
        /\ (bg_thread[r].pc = "running" /\ run[r].pc \notin Terminal) =>
              bg_thread[r].temp_file
        /\ bg_thread[r].pc \in {"running", "finally"} => bg_thread[r].temp_file

\* C37 as stated: the temp file exists for the whole ingestion run, and once
\* the background run has finished, by success or by failure, it is removed.
C37_TempFileRemovedAtEnd ==
    /\ TempFileKeptDuringRun
    /\ \A r \in Runs : bg_thread[r].pc = "ended" => ~bg_thread[r].temp_file

\* C37, amended: the temp file exists for the whole ingestion run; once the
\* background run has finished, by success or by failure, its removal has
\* been attempted, and the file is gone unless the removal itself failed, a
\* failure that is swallowed and leaves the file in place.
C37_TempFileRemovalAttemptedAtEnd ==
    /\ TempFileKeptDuringRun
    /\ \A r \in Runs :
          bg_thread[r].pc = "ended" =>
              /\ run[r].pc \in Terminal
              /\ bg_thread[r].temp_file = bg_thread[r].remove_failed
              /\ bg_thread[r].cleaned = ~bg_thread[r].remove_failed

\* The thread of an upload whose ingestion returned has ended with the temp
\* file removed.
C37_Witness ==
    /\ bg_thread["r1"].pc = "ended"
    /\ run["r1"].pc = "returned"
    /\ bg_thread["r1"].cleaned
    /\ ~bg_thread["r1"].temp_file

-----------------------------------------------------------------------------
(* The claim about ownership, checked under SpecAccess.                     *)

\* The step is a call of get_video_details or delete_video.
OwnerCheckedCall ==
    /\ http = None
    /\ http' # None
    /\ http'[1].handler \in {"get_video_details", "delete_video"}

-----------------------------------------------------------------------------
(* The claim about a delete during an ingestion run, checked under SpecApi. *)

\* Under SpecApi only delete_video removes a Video record, so a thread past
\* its insert_video whose id has no record is one whose video was deleted
\* while it ran.
DeletedWhileRunning(r) ==
    /\ run[r].pc \notin {"idle", "probe", "upload_original", "insert_video",
                         "returned", "raised"}
    /\ ~HasVideo(videos, run[r].video_id)

\* C38: once delete_video has succeeded for the id of a run in progress, no
\* later step brings back a Video record or a Segment row of that id.
C38_DeletedStaysDeleted ==
    [][\A r \in Runs :
          DeletedWhileRunning(r) =>
             /\ ~HasVideo(videos', run[r].video_id)
             /\ \A s \in segments' : s.video_id # run[r].video_id]_vars

-----------------------------------------------------------------------------
(* The claim about the clusters as a partition, checked under SpecMoments.  *)

RECURSIVE Concat(_)
Concat(seqs) ==
    IF seqs = <<>> THEN <<>> ELSE Head(seqs) \o Concat(Tail(seqs))

\* C40: group_into_moments partitions its input into contiguous runs: the
\* clusters are non-empty and, one after the other, make up the input, so
\* every row is in exactly one of them; there is one output element per
\* cluster, in the order the clusters start, and it is a row of that
\* cluster; the output has between 1 and len(input) elements for a
\* non-empty input and none for an empty one.
C40_ClustersPartitionTheInput ==
    gm_pc = "returned" =>
        LET clusters == RefClusters(gm_segments, TimeThresholdMs)
        IN  /\ Concat(clusters) = gm_segments
            /\ \A k \in DOMAIN clusters : clusters[k] # <<>>
            /\ Len(gm_result) = Len(clusters)
            /\ \A k \in DOMAIN gm_result :
                  \E i \in DOMAIN clusters[k] : gm_result[k] = clusters[k][i]
            /\ gm_segments = <<>> => gm_result = <<>>
            /\ gm_segments # <<>> =>
                  /\ 1 <= Len(gm_result)
                  /\ Len(gm_result) <= Len(gm_segments)

\* A returned call on three rows in two clusters, the output being the
\* second row of the first cluster and the only row of the second.
C40_Witness ==
    /\ gm_pc = "returned"
    /\ Len(gm_segments) = 3
    /\ LET clusters == RefClusters(gm_segments, TimeThresholdMs)
       IN  /\ Len(clusters) = 2
           /\ Len(clusters[1]) = 2
           /\ gm_result = <<clusters[1][2], clusters[2][1]>>
           /\ clusters[1][2] # clusters[1][1]

=============================================================================
